---- MODULE Spec2Model ----
(* State-machine model of the saga workflows of temporal-warmups:            *)
(*   exercise-05-booking/solution  BookingWorkflow and its activities over   *)
(*                                 the in-memory BookingDatabase,            *)
(*   exercise-07-order-system      ProcessOrderWorkflow and child workflows, *)
(*   exercise-03-hotel/pre-temporal the hand-written payment retry loop.     *)
(* A behaviour runs one of these programs; the others stay idle.             *)
(* Dates are day numbers (day 1 = first seeded day); an ISO date string and  *)
(* the datetime parsed from it denote the same day number.                   *)
EXTENDS Integers, Sequences, FiniteSets, TLC

\* ---------------------------------------------------------------- bounds
NumSeats == 2      \* economy seats of each flight instance
NumRooms == 1      \* standard rooms of the hotel
NumDays  == 2      \* seeded days of flight instances
MaxLost  == 1      \* activity completions lost to a start-to-close timeout
MaxRestarts == 1       \* restarts of the worker per booking
MaxItems == 2      \* items of an order
MaxThumbnails == 2 \* thumbnails generated (the code takes all_products[:10])
SeedStock == 1     \* quantity in stock of the ordered SKU (the code seeds 50)
NumOrderIds == 2   \* distinct order ids the order client submits
NumGuests == 2     \* reservations the hotel client submits (the code submits 3)
MaxQuantity == 2   \* quantity of an item of an order
max_rounds == 2    \* GameState.max_rounds (the code plays 6)
NumPlayers == 2    \* players of a Great Wall game

\* ------------------------------------------------------ program constants
maximum_attempts == 3
PaymentRetries   == 3
\* DEFAULT_RETRY_POLICY, in seconds
initial_interval == 1
maximum_interval == 10
backoff_coefficient == 2
\* OrderProcessor.process_payment
max_attempts == 3

None == [kind |-> "None"]

Codes       == {"c1", "FORCE-PAYMENT-FAIL-c2"}
\* `"FORCE-PAYMENT-FAIL" in confirmation_code`
ForcePaymentFail(code) == code = "FORCE-PAYMENT-FAIL-c2"

Min(S) == CHOOSE x \in S : \A y \in S : x <= y

\* the element of a one-element set
Value(S) == CHOOSE x \in S : TRUE

\* -------------------------------------------------------------- variables
VARIABLES
    db,             \* the BookingDatabase singleton
    booking,        \* per confirmation code: the TravelBookingRequest or None
    pc,             \* per code: position of BookingWorkflow.run
    attempt,        \* per code: attempt number of the activity being executed
    flight_result, hotel_result, car_result,   \* locals of BookingWorkflow.run
    error,          \* per code: activity whose ActivityError the handler caught
    raised,         \* per code: activity whose ActivityError ended the run
    log,            \* per code: recorded activity attempts, in order
    applied,        \* per code: how often each activity body ran to completion
    held,           \* per code: resources taken by the bodies of its activities
    last_failure,   \* per code: why the latest attempt failed ("" if it did not)
    lost            \* completions lost to timeouts so far

wvars == <<db, booking, pc, attempt, flight_result, hotel_result, car_result,
           error, raised, log, applied, held, last_failure>>

bvars == <<wvars, lost>>

VARIABLES
    order,              \* the Order given to ProcessOrderWorkflow.run, or None
    opc,                \* position of ProcessOrderWorkflow.run
    oattempt,           \* attempt number of the activity being executed
    payment_id, order_reservations, shipping_id,   \* fields of ProcessOrderWorkflow
    reservation_ids,    \* local of ReserveInventoryWorkflow.reserve_inventory
    item,               \* index of the item or reservation a loop is at
    oerror, oraised,    \* as error and raised, for the order workflow
    olog,               \* recorded activity attempts of the order, in order
    made, released      \* reservation ids handed out / released by the bodies

ovars == <<order, opc, oattempt, payment_id, order_reservations, shipping_id,
           reservation_ids, item, oerror, oraised, olog, made, released>>

VARIABLES
    hpc,                \* position of HotelReservationSystem.process_reservation
    hattempt,           \* loop variable `attempt` of its payment retry loop
    hpayment_id,        \* local payment_id
    hlog,               \* outcomes of the payment attempts, in order
    hwaits              \* the wait_time of each time.sleep(wait_time), in order

hvars == <<hpc, hattempt, hpayment_id, hlog, hwaits>>

VARIABLES
    cpc,                \* position of CatalogSyncSystem.sync_catalog
    cbranch,            \* per fan-out step: the state of each gathered activity
    cresult             \* 'success' of the dict sync_catalog returned

cvars == <<cpc, cbranch, cresult>>

VARIABLES
    porder,             \* the Order given to OrderProcessingWorkflow.run
    ppc,                \* position of OrderProcessingWorkflow.run
    pattempt,           \* attempt number of the activity being executed
    ppayment_id,        \* local payment_id
    pinventory,         \* quantity in stock in inventory_db
    presult,            \* 'success' of the OrderResult run returned
    pfailed             \* the activity that failed for good

pvars == <<porder, ppc, pattempt, ppayment_id, pinventory, presult, pfailed>>

VARIABLES
    epc,                \* position of EmailVerificationWorkflow.run
    eattempt,           \* attempt number of the activity being executed
    token, link,        \* locals of EmailVerificationWorkflow.run: bound or not
    eresult,            \* 'success' of the dict run returned
    efailed             \* the activity that failed for good

evars == <<epc, eattempt, token, link, eresult, efailed>>

VARIABLES
    dpc,                \* position of run of exercise-05-booking/workflow.py
    dattempt,           \* attempt number of the activity being executed
    dlog                \* recorded activity attempts of that run, in order

dvars == <<dpc, dattempt, dlog>>

VARIABLES
    rpc,                \* position of OrderProcessor.process_payment
    rattempt,           \* loop variable `attempt` of its retry loop
    rlog,               \* outcomes of its payment attempts, in order
    rwaits              \* the seconds of each time.sleep before a retry, in order

rvars == <<rpc, rattempt, rlog, rwaits>>

VARIABLES
    started,            \* the order workflows the client started: id and order id
    children            \* the child workflows they started: parent, step and id

kvars == <<started, children>>

VARIABLES
    respc,              \* position of HotelReservationWorkflow.run
    resattempt,         \* attempt number of the activity being executed
    available_rooms,    \* local available_rooms: how many rooms it lists
    reslog              \* recorded activity attempts of that run, in order

resvars == <<respc, resattempt, available_rooms, reslog>>

VARIABLES
    gpc,                \* per guest: position of that guest's HotelReservationWorkflow.run
    gattempt,           \* per guest: attempt number of the activity being executed
    gres,               \* per guest: the ReservationRequest given to run
    grooms,             \* per guest: local available_rooms
    groom_number        \* per guest: local room_number ("" before assign_room returned)

gvars == <<gpc, gattempt, gres, grooms, groom_number>>

VARIABLES
    inventory_db,       \* InventoryDatabase._inventory: quantity in stock per SKU
    last_call           \* the last call of the reserve_inventory activity: items, ok

ivars == <<inventory_db, last_call>>

VARIABLES
    current_phase,      \* GameState.current_phase
    current_round,      \* GameState.current_round
    breached,           \* the wall sections for which is_breached() holds
    gamepc,             \* position of the caller: in play_game, or calling next_phase
    rounds_played       \* calls of play_round made by play_game

gwvars == <<current_phase, current_round, breached, gamepc, rounds_played>>

vars == <<bvars, ovars, hvars, cvars, pvars, evars, dvars, rvars, kvars, resvars, gvars,
          ivars, gwvars>>

\* what the actions of one program leave alone: the other programs
not_booking == <<ovars, hvars, cvars, pvars, evars, dvars, rvars, kvars, resvars,
    gvars, ivars, gwvars>>
not_order == <<wvars, hvars, cvars, pvars, evars, dvars, rvars, kvars, resvars, gvars,
    ivars, gwvars>>
not_hotel == <<bvars, ovars, cvars, pvars, evars, dvars, rvars, kvars, resvars, gvars,
    ivars, gwvars>>
not_catalog == <<bvars, ovars, hvars, pvars, evars, dvars, rvars, kvars, resvars,
    gvars, ivars, gwvars>>
not_processing == <<bvars, ovars, hvars, cvars, evars, dvars, rvars, kvars, resvars,
    gvars, ivars, gwvars>>
not_email == <<bvars, ovars, hvars, cvars, pvars, dvars, rvars, kvars, resvars, gvars,
    ivars, gwvars>>
not_draft == <<bvars, ovars, hvars, cvars, pvars, evars, rvars, kvars, resvars, gvars,
    ivars, gwvars>>
not_retry == <<bvars, ovars, hvars, cvars, pvars, evars, dvars, kvars, resvars, gvars,
    ivars, gwvars>>
not_keys == <<bvars, ovars, hvars, cvars, pvars, evars, dvars, rvars, resvars, gvars,
    ivars, gwvars>>
not_reservation == <<bvars, ovars, hvars, cvars, pvars, evars, dvars, rvars, kvars,
    gvars, ivars, gwvars>>
not_guests == <<bvars, ovars, hvars, cvars, pvars, evars, dvars, rvars, kvars, resvars,
    ivars, gwvars>>
not_inventory == <<bvars, ovars, hvars, cvars, pvars, evars, dvars, rvars, kvars,
    resvars, gvars, gwvars>>
not_game == <<bvars, ovars, hvars, cvars, pvars, evars, dvars, rvars, kvars,
    resvars, gvars, ivars>>

\* ------------------------------------------------------------- seed data
SeedSeats ==
    [i \in 1..NumSeats |->
        [seat_number |-> i, carriage_class |-> "economy", is_available |-> TRUE]]

SeedDB ==
    [ airports |-> << [code |-> "SFO", city |-> "San Francisco"],
                      [code |-> "JFK", city |-> "New York"] >>,
      flights  |-> << [flight_number |-> "F1", price |-> 350,
                       departure_airport |-> "SFO", arrival_airport |-> "JFK"] >>,
      flight_instances |->
          [d \in 1..NumDays |-> [flight_number |-> "F1", date |-> d, seats |-> SeedSeats]],
      hotels   |-> << [hotel_name |-> "Grand Plaza Hotel", city |-> "New York",
                       rooms |-> [i \in 1..NumRooms |->
                                    [room_number |-> 100 + i, room_type |-> "standard",
                                     unavailable_dates |-> {}]]] >>,
      cars     |-> << [license_plate |-> "CAR1", car_type |-> "economy",
                       location |-> "JFK", unavailable_dates |-> {}] >>,
      booking_requests    |-> [c \in Codes |-> None],
      flight_reservations |-> [c \in Codes |-> None],
      hotel_reservations  |-> [c \in Codes |-> None],
      car_reservations    |-> [c \in Codes |-> None] ]

Requests(code) ==
    [ confirmation_code : {code},
      departure_city    : {"San Francisco"},
      destination_city  : {"New York"},
      carriage_class    : {"economy", "first"},
      room_type         : {"standard", "penthouse"},
      car_type          : {"economy", "limousine"},
      departure_date    : {1},
      return_date       : {2} ]

\* ------------------------------------------------- BookingDatabase methods
\* index of the first element of sequence s satisfying P, 0 when there is none
FirstIndex(s, P(_)) ==
    IF \E i \in 1..Len(s) : P(s[i])
    THEN Min({i \in 1..Len(s) : P(s[i])})
    ELSE 0

\* dict comprehension {airport.city: airport.code}: the last airport of a city wins
city_to_airport(d, city) ==
    LET idx == {i \in 1..Len(d.airports) : d.airports[i].city = city}
    IN  IF idx = {} THEN ""
        ELSE d.airports[CHOOSE i \in idx : \A j \in idx : j <= i].code

get_flight_instance(d, flight_number, date) ==
    LET Hit(fi) == fi.flight_number = flight_number /\ fi.date = date
    IN  FirstIndex(d.flight_instances, Hit)

find_available_seat(d, flight_number, date, carriage_class) ==
    LET inst == get_flight_instance(d, flight_number, date)
        Free(seat) == seat.carriage_class = carriage_class /\ seat.is_available
    IN  IF inst = 0 THEN 0
        ELSE FirstIndex(d.flight_instances[inst].seats, Free)

\* <<flight index, instance index, seat index>>, or <<0, 0, 0>> for None
find_available_flight(d, departure_city, destination_city, date, carriage_class) ==
    LET departure_airport == city_to_airport(d, departure_city)
        arrival_airport   == city_to_airport(d, destination_city)
        Usable(f) == /\ f.departure_airport = departure_airport
                     /\ f.arrival_airport = arrival_airport
                     /\ get_flight_instance(d, f.flight_number, date) # 0
                     /\ find_available_seat(d, f.flight_number, date, carriage_class) # 0
        fl == FirstIndex(d.flights, Usable)
    IN  IF departure_airport = "" \/ arrival_airport = "" THEN <<0, 0, 0>>
        ELSE IF fl = 0 THEN <<0, 0, 0>>
        ELSE << fl,
                get_flight_instance(d, d.flights[fl].flight_number, date),
                find_available_seat(d, d.flights[fl].flight_number, date, carriage_class) >>

\* [ok, db]: marks the seat booked; False if not found or already booked
book_seat(d, flight_number, date, seat_number) ==
    LET inst == get_flight_instance(d, flight_number, date)
        Same(each) == each.seat_number = seat_number
        st == IF inst = 0 THEN 0 ELSE FirstIndex(d.flight_instances[inst].seats, Same)
    IN  IF inst = 0 \/ st = 0 THEN [ok |-> FALSE, db |-> d]
        ELSE IF ~d.flight_instances[inst].seats[st].is_available
             THEN [ok |-> FALSE, db |-> d]
        ELSE [ok |-> TRUE,
              db |-> [d EXCEPT !.flight_instances[inst].seats[st].is_available = FALSE]]

release_seat(d, flight_number, date, seat_number) ==
    LET inst == get_flight_instance(d, flight_number, date)
        Same(each) == each.seat_number = seat_number
        st == IF inst = 0 THEN 0 ELSE FirstIndex(d.flight_instances[inst].seats, Same)
    IN  IF inst = 0 \/ st = 0 THEN d
        ELSE [d EXCEPT !.flight_instances[inst].seats[st].is_available = TRUE]

\* Room.is_available / Car.is_available
is_available(unit, dates) == unit.unavailable_dates \cap dates = {}

\* Room.book_dates / Car.book_dates
book_dates(unit, dates) ==
    [unit EXCEPT !.unavailable_dates = unit.unavailable_dates \cup dates]

\* `while current < out_date` and `while current <= return_date`
HotelDates(check_in, check_out) == {x \in check_in..check_out : x < check_out}
CarDates(pickup_date, return_date) == pickup_date..return_date

\* variant: the search takes the first room of the type, booked or not
find_available_hotel_room_any(d, city, room_type, check_in, check_out) ==
    LET Fits(room) == room.room_type = room_type
        Has(hotel) == hotel.city = city /\ FirstIndex(hotel.rooms, Fits) # 0
        h == FirstIndex(d.hotels, Has)
    IN  IF h = 0 THEN <<0, 0>> ELSE << h, FirstIndex(d.hotels[h].rooms, Fits) >>

\* <<hotel index, room index>>, or <<0, 0>> for None
find_available_hotel_room(d, city, room_type, check_in, check_out) ==
    LET dates == HotelDates(check_in, check_out)
        Fits(room) == room.room_type = room_type /\ is_available(room, dates)
        Has(hotel) == hotel.city = city /\ FirstIndex(hotel.rooms, Fits) # 0
        h == FirstIndex(d.hotels, Has)
    IN  IF h = 0 THEN <<0, 0>> ELSE << h, FirstIndex(d.hotels[h].rooms, Fits) >>

\* car index, or 0
find_available_car(d, city, car_type, pickup_date, return_date) ==
    LET location == city_to_airport(d, city)
        dates == CarDates(pickup_date, return_date)
        Fits(car) == /\ car.location = location
                     /\ car.car_type = car_type
                     /\ is_available(car, dates)
    IN  IF location = "" THEN 0 ELSE FirstIndex(d.cars, Fits)

\* ------------------------------------------------------------- activities
\* Each activity is an operator from the database (and its arguments) to
\* [ok, db, result, took, reason]: ok = FALSE is a raised ApplicationError of
\* the kind reason, took is the set of resources the body marked as booked.
Raise(d, reason) ==
    [ok |-> FALSE, db |-> d, result |-> None, took |-> {}, reason |-> reason]

store_booking_request(d, b) ==
    [ok |-> TRUE,
     db |-> [d EXCEPT !.booking_requests[b.confirmation_code] = b],
     result |-> None, took |-> {}, reason |-> ""]

book_flight(d, request) ==
    LET code == request.confirmation_code
        Reserve(found) ==
            LET flight == d.flights[found[1]]
                seat   == d.flight_instances[found[2]].seats[found[3]]
                bs     == book_seat(d, flight.flight_number, request.departure_date,
                                    seat.seat_number)
                completed_reservation ==
                    [confirmation_code |-> code,
                     flight_number |-> flight.flight_number,
                     date |-> request.departure_date,
                     seat_numbers |-> <<seat.seat_number>>,
                     carriage_class |-> request.carriage_class,
                     price |-> flight.price]
            IN  IF found[1] = 0 THEN Raise(d, "no_availability")
                ELSE IF ~bs.ok THEN Raise(d, "no_availability")
                ELSE [ok |-> TRUE, reason |-> "",
                      db |-> [bs.db EXCEPT !.flight_reservations[code] =
                                               completed_reservation],
                      result |-> completed_reservation,
                      took |-> {<<"seat", flight.flight_number,
                                  request.departure_date, seat.seat_number>>}]
    IN  IF d.booking_requests[code] = None THEN Raise(d, "KeyError")
        ELSE Value({Reserve(found) : found \in
                      {find_available_flight(d, request.departure_city,
                           request.destination_city, request.departure_date,
                           request.carriage_class)}})

\* unavailable selects the branch `random.random() < 0.25`
book_hotel(d, request, unavailable) ==
    LET code == request.confirmation_code
        booking_request == d.booking_requests[code]
        city  == booking_request.destination_city
        found == find_available_hotel_room(d, city, request.room_type,
                                           request.check_in, request.check_out)
        hotel == d.hotels[found[1]]
        room  == hotel.rooms[found[2]]
        dates == HotelDates(request.check_in, request.check_out)
        completed_reservation ==
            [confirmation_code |-> code,
             hotel_name |-> hotel.hotel_name,
             room_number |-> room.room_number,
             room_type |-> request.room_type,
             check_in |-> request.check_in,
             check_out |-> request.check_out,
             price |-> 100 * Cardinality(dates)]
    IN  IF booking_request = None THEN Raise(d, "KeyError")
        ELSE IF ~ForcePaymentFail(code) /\ unavailable THEN Raise(d, "service")
        ELSE IF found[1] = 0 THEN Raise(d, "no_availability")
        ELSE [ok |-> TRUE, reason |-> "",
              db |-> [d EXCEPT !.hotels[found[1]].rooms[found[2]] = book_dates(room, dates),
                               !.hotel_reservations[code] = completed_reservation],
              result |-> completed_reservation,
              took |-> {<<"room", hotel.hotel_name, x, room.room_number>> : x \in dates}]

\* unavailable selects the branch `random.random() < 0.40`
book_car(d, request, unavailable) ==
    LET code == request.confirmation_code
        booking_request == d.booking_requests[code]
        city  == booking_request.destination_city
        found == find_available_car(d, city, request.car_type,
                                    request.pickup_date, request.return_date)
        car   == d.cars[found]
        dates == CarDates(request.pickup_date, request.return_date)
        completed_reservation ==
            [confirmation_code |-> code,
             license_plate |-> car.license_plate,
             car_type |-> request.car_type,
             pickup_date |-> request.pickup_date,
             return_date |-> request.return_date,
             price |-> 50 * Cardinality(dates)]
    IN  IF booking_request = None THEN Raise(d, "KeyError")
        ELSE IF ~ForcePaymentFail(code) /\ unavailable THEN Raise(d, "service")
        ELSE IF found = 0 THEN Raise(d, "no_availability")
        ELSE [ok |-> TRUE, reason |-> "",
              db |-> [d EXCEPT !.cars[found] = book_dates(car, dates),
                               !.car_reservations[code] = completed_reservation],
              result |-> completed_reservation,
              took |-> {<<"car", "", x, car.license_plate>> : x \in dates}]

\* declined selects either of the two random failure branches
accept_payment(d, confirmation_code, declined) ==
    IF ForcePaymentFail(confirmation_code) THEN Raise(d, "payment")
    ELSE IF declined THEN Raise(d, "payment")
    ELSE [ok |-> TRUE, db |-> d, reason |-> "",
          result |-> [id |-> "PAY", confirmation_code |-> confirmation_code],
          took |-> {}]

RECURSIVE ReleaseSeats(_, _, _)
ReleaseSeats(d, reservation, i) ==
    IF i > Len(reservation.seat_numbers) THEN d
    ELSE ReleaseSeats(release_seat(d, reservation.flight_number, reservation.date,
                                   reservation.seat_numbers[i]),
                      reservation, i + 1)

\* variant: the cancellation also deletes the stored booking request
cancel_flight_and_request(d, confirmation_code) ==
    LET reservation == d.flight_reservations[confirmation_code]
    IN  IF reservation = None
        THEN [d EXCEPT !.booking_requests[confirmation_code] = None]
        ELSE [ReleaseSeats(d, reservation, 1)
                EXCEPT !.flight_reservations[confirmation_code] = None,
                       !.booking_requests[confirmation_code] = None]

\* variant: the cancellation drops every flight reservation
cancel_flight_everyone(d, confirmation_code) ==
    [d EXCEPT !.flight_reservations = [c \in Codes |-> None]]

cancel_flight(d, confirmation_code) ==
    LET reservation == d.flight_reservations[confirmation_code]
    IN  IF reservation = None THEN d
        ELSE [ReleaseSeats(d, reservation, 1)
                EXCEPT !.flight_reservations[confirmation_code] = None]

cancel_hotel(d, confirmation_code) ==
    LET reservation == d.hotel_reservations[confirmation_code]
        ByName(hotel) == hotel.hotel_name = reservation.hotel_name
        h == FirstIndex(d.hotels, ByName)
        ByNumber(room) == room.room_number = reservation.room_number
        r == FirstIndex(d.hotels[h].rooms, ByNumber)
        dates == HotelDates(reservation.check_in, reservation.check_out)
    IN  IF reservation = None THEN d
        ELSE IF h = 0 THEN d
        ELSE IF r = 0 THEN d
        ELSE [d EXCEPT !.hotels[h].rooms[r].unavailable_dates = @ \ dates,
                       !.hotel_reservations[confirmation_code] = None]

cancel_car(d, confirmation_code) ==
    LET reservation == d.car_reservations[confirmation_code]
        ByPlate(car) == car.license_plate = reservation.license_plate
        c == FirstIndex(d.cars, ByPlate)
        dates == CarDates(reservation.pickup_date, reservation.return_date)
    IN  IF reservation = None THEN d
        ELSE IF c = 0 THEN d
        ELSE [d EXCEPT !.cars[c].unavailable_dates = @ \ dates,
                       !.car_reservations[confirmation_code] = None]

\* variant: the cancellations lack the guard `if not reservation: return`,
\* and `del` raises KeyError for a code with no stored reservation
cancel_activity_unguarded(d, act, confirmation_code) ==
    LET reservation == IF act = "cancel_car" THEN d.car_reservations[confirmation_code]
                       ELSE IF act = "cancel_hotel"
                       THEN d.hotel_reservations[confirmation_code]
                       ELSE d.flight_reservations[confirmation_code]
    IN  IF reservation = None THEN Raise(d, "KeyError")
        ELSE [ok |-> TRUE, result |-> None, took |-> {}, reason |-> "",
              db |-> IF act = "cancel_car" THEN cancel_car(d, confirmation_code)
                     ELSE IF act = "cancel_hotel" THEN cancel_hotel(d, confirmation_code)
                     ELSE cancel_flight(d, confirmation_code)]

\* one execution of the body of the cancellation act: none of the three
\* raises, all return None
cancel_activity(d, act, confirmation_code) ==
    [ok |-> TRUE, result |-> None, took |-> {}, reason |-> "",
     db |-> IF act = "cancel_car" THEN cancel_car(d, confirmation_code)
            ELSE IF act = "cancel_hotel" THEN cancel_hotel(d, confirmation_code)
            ELSE cancel_flight(d, confirmation_code)]

\* -------------------------------------------------------- BookingWorkflow
Activities == {"store_booking_request", "book_flight", "book_hotel", "book_car",
               "accept_payment", "cancel_car", "cancel_hotel", "cancel_flight"}
Forward == {"store_booking_request", "book_flight", "book_hotel", "book_car",
            "accept_payment"}
Cancels == {"cancel_car", "cancel_hotel", "cancel_flight"}

\* variant: one attempt too many
should_retry_inclusive(attempt_number) == attempt_number <= maximum_attempts

\* DEFAULT_RETRY_POLICY: a failed attempt is retried while attempts remain;
\* ApplicationError is raised without non_retryable, so every failure counts alike
should_retry(attempt_number) == attempt_number < maximum_attempts

\* How one attempt of an activity ends for the workflow:
\*   "none"   the body ran and its return or exception was reported,
\*   "before" start_to_close_timeout expired and the body did not run,
\*   "after"  the body returned but the completion was lost to the timeout.
Timeouts == {"none", "before", "after"}
Ran(timeout) == timeout # "before"
Delivered(r, timeout) == timeout = "none" /\ r.ok

flight_request(b) ==
    [confirmation_code |-> b.confirmation_code, carriage_class |-> b.carriage_class,
     departure_date |-> b.departure_date, departure_city |-> b.departure_city,
     destination_city |-> b.destination_city]
hotel_request(b) ==
    [confirmation_code |-> b.confirmation_code, city |-> b.destination_city,
     hotel_name |-> "Grand Plaza Hotel", room_type |-> b.room_type,
     check_in |-> b.departure_date, check_out |-> b.return_date]
car_request(b) ==
    [confirmation_code |-> b.confirmation_code, rental_company |-> "Enterprise",
     car_type |-> b.car_type, pickup_date |-> b.departure_date,
     return_date |-> b.return_date]

\* variant: cancellations taken in booking order
FirstCompensation_forward_order(car, hotel, flight) ==
    IF flight # None THEN "cancel_flight"
    ELSE IF hotel # None THEN "cancel_hotel"
    ELSE IF car # None THEN "cancel_car"
    ELSE "failed"

\* variant: cancel_hotel guarded by flight_result instead of hotel_result
FirstCompensation_wrong_guard(car, hotel, flight) ==
    IF car # None THEN "cancel_car"
    ELSE IF flight # None THEN "cancel_hotel"
    ELSE "failed"

\* variant: the handler only re-raises (no rollback)
FirstCompensation_no_rollback(car, hotel, flight) == "failed"

\* variant: the handler waits for a condition that never holds
FirstCompensation_never_returns(car, hotel, flight) == "waiting"

\* the except block from its top: the first cancellation whose result is set,
\* or the final `raise` ("failed")
FirstCompensation(car, hotel, flight) ==
    IF car # None THEN "cancel_car"
    ELSE IF hotel # None THEN "cancel_hotel"
    ELSE IF flight # None THEN "cancel_flight"
    ELSE "failed"

\* variant: after a cancellation the run goes on with the payment
NextCompensation_resumes(done, hotel, flight) == "accept_payment"

\* the except block after the cancellation `done` returned
NextCompensation(done, hotel, flight) ==
    IF done = "cancel_car" THEN FirstCompensation(None, hotel, flight)
    ELSE IF done = "cancel_hotel" THEN FirstCompensation(None, None, flight)
    ELSE "failed"

\* variant: a failed cancellation is swallowed and the caught error re-raised
HandlerRaises_caught(cancel, caught) == caught

\* an ActivityError raised by a cancellation inside the except block leaves
\* run in place of the error being handled
HandlerRaises(cancel, caught) == cancel

\* bookkeeping of one attempt of activity act by workflow w with body outcome r
Attempted(w, act, r, timeout) ==
    /\ timeout \in Timeouts
    /\ timeout = "after" => (r.ok /\ lost < MaxLost)
    /\ db' = IF Ran(timeout) THEN r.db ELSE db
    /\ lost' = IF timeout = "after" THEN lost + 1 ELSE lost
    /\ log' = [log EXCEPT ![w] = Append(@,
                 [activity |-> act, attempt |-> attempt[w],
                  outcome |-> IF Delivered(r, timeout) THEN "Success" ELSE "Failure",
                  result |-> IF Delivered(r, timeout) THEN r.result ELSE None])]
    /\ applied' = [applied EXCEPT ![w][act] =
                      IF Ran(timeout) /\ r.ok THEN @ + 1 ELSE @]
    /\ held' = [held EXCEPT ![w] = IF Ran(timeout) THEN @ \cup r.took ELSE @]
    /\ last_failure' = [last_failure EXCEPT ![w] =
                           IF Delivered(r, timeout) THEN ""
                           ELSE IF timeout # "none" THEN "timeout" ELSE r.reason]

\* variant: run gives up on the first failed attempt
ForwardControl_no_retry(w, act, r, timeout, next) ==
    IF Delivered(r, timeout)
    THEN /\ pc' = [pc EXCEPT ![w] = next]
         /\ attempt' = [attempt EXCEPT ![w] = 1]
         /\ UNCHANGED <<error, raised>>
    ELSE LET first == FirstCompensation(car_result[w], hotel_result[w], flight_result[w])
         IN  /\ pc' = [pc EXCEPT ![w] = first]
             /\ attempt' = [attempt EXCEPT ![w] = 1]
             /\ error' = [error EXCEPT ![w] = act]
             /\ raised' = [raised EXCEPT ![w] = IF first = "failed" THEN act ELSE @]

\* variant: run goes on to the next step whatever the attempt did
ForwardControl_ignores_failure(w, act, r, timeout, next) ==
    /\ pc' = [pc EXCEPT ![w] = next]
    /\ attempt' = [attempt EXCEPT ![w] = 1]
    /\ UNCHANGED <<error, raised>>

\* variant: run looks at why the attempt failed, which the history does not
\* record, and gives up at once for lack of availability
ForwardControl_by_reason(w, act, r, timeout, next) ==
    IF Delivered(r, timeout)
    THEN /\ pc' = [pc EXCEPT ![w] = next]
         /\ attempt' = [attempt EXCEPT ![w] = 1]
         /\ UNCHANGED <<error, raised>>
    ELSE IF should_retry(attempt[w]) /\ (timeout # "none" \/ r.reason # "no_availability")
    THEN /\ attempt' = [attempt EXCEPT ![w] = @ + 1]
         /\ UNCHANGED <<pc, error, raised>>
    ELSE LET first == FirstCompensation(car_result[w], hotel_result[w], flight_result[w])
         IN  /\ pc' = [pc EXCEPT ![w] = first]
             /\ attempt' = [attempt EXCEPT ![w] = 1]
             /\ error' = [error EXCEPT ![w] = act]
             /\ raised' = [raised EXCEPT ![w] = IF first = "failed" THEN act ELSE @]

\* control flow of run after one attempt of the forward activity act:
\* continue at next on success, retry, or enter the except block
ForwardControl(w, act, r, timeout, next) ==
    IF Delivered(r, timeout)
    THEN /\ pc' = [pc EXCEPT ![w] = next]
         /\ attempt' = [attempt EXCEPT ![w] = 1]
         /\ UNCHANGED <<error, raised>>
    ELSE IF should_retry(attempt[w])
    THEN /\ attempt' = [attempt EXCEPT ![w] = @ + 1]
         /\ UNCHANGED <<pc, error, raised>>
    ELSE LET first == FirstCompensation(car_result[w], hotel_result[w], flight_result[w])
         IN  /\ pc' = [pc EXCEPT ![w] = first]
             /\ attempt' = [attempt EXCEPT ![w] = 1]
             /\ error' = [error EXCEPT ![w] = act]
             /\ raised' = [raised EXCEPT ![w] = IF first = "failed" THEN act ELSE @]

\* client.execute_workflow: run starts and reaches its first await
StartBooking(w) ==
    /\ pc[w] = "pending"
    /\ pc' = [pc EXCEPT ![w] = "store_booking_request"]
    /\ UNCHANGED <<db, booking, attempt, flight_result, hotel_result, car_result,
                   error, raised, log, applied, held, last_failure, lost>>
    /\ UNCHANGED not_booking

RunStoreBookingRequest(w) ==
    /\ pc[w] = "store_booking_request"
    /\ \E timeout \in Timeouts :
         \E r \in {store_booking_request(db, booking[w])} :
             /\ Attempted(w, "store_booking_request", r, timeout)
             /\ ForwardControl(w, "store_booking_request", r, timeout, "book_flight")
    /\ UNCHANGED <<booking, flight_result, hotel_result, car_result>>
    /\ UNCHANGED not_booking

RunBookFlight(w) ==
    /\ pc[w] = "book_flight"
    /\ \E timeout \in Timeouts :
         \E r \in {book_flight(db, flight_request(booking[w]))} :
             /\ Attempted(w, "book_flight", r, timeout)
             /\ ForwardControl(w, "book_flight", r, timeout, "book_hotel")
             /\ flight_result' = [flight_result EXCEPT ![w] =
                                    IF Delivered(r, timeout) THEN r.result ELSE @]
    /\ UNCHANGED <<booking, hotel_result, car_result>>
    /\ UNCHANGED not_booking

RunBookHotel(w) ==
    /\ pc[w] = "book_hotel"
    /\ \E timeout \in Timeouts, unavailable \in BOOLEAN :
         \E r \in {book_hotel(db, hotel_request(booking[w]), unavailable)} :
             /\ Attempted(w, "book_hotel", r, timeout)
             /\ ForwardControl(w, "book_hotel", r, timeout, "book_car")
             /\ hotel_result' = [hotel_result EXCEPT ![w] =
                                    IF Delivered(r, timeout) THEN r.result ELSE @]
    /\ UNCHANGED <<booking, flight_result, car_result>>
    /\ UNCHANGED not_booking

RunBookCar(w) ==
    /\ pc[w] = "book_car"
    /\ \E timeout \in Timeouts, unavailable \in BOOLEAN :
         \E r \in {book_car(db, car_request(booking[w]), unavailable)} :
             /\ Attempted(w, "book_car", r, timeout)
             /\ ForwardControl(w, "book_car", r, timeout, "accept_payment")
             /\ car_result' = [car_result EXCEPT ![w] =
                                  IF Delivered(r, timeout) THEN r.result ELSE @]
    /\ UNCHANGED <<booking, flight_result, hotel_result>>
    /\ UNCHANGED not_booking

RunAcceptPayment(w) ==
    /\ pc[w] = "accept_payment"
    /\ \E timeout \in Timeouts, declined \in BOOLEAN :
         \E r \in {accept_payment(db, booking[w].confirmation_code, declined)} :
             /\ Attempted(w, "accept_payment", r, timeout)
             /\ ForwardControl(w, "accept_payment", r, timeout, "completed")
    /\ UNCHANGED <<booking, flight_result, hotel_result, car_result>>
    /\ UNCHANGED not_booking

\* variant: a cancellation that failed for good is skipped and the except
\* block goes on with the next one
AfterCancelFailure_continues(done, hotel, flight) ==
    NextCompensation(done, hotel, flight)

\* the ActivityError of a cancellation that failed for good is raised inside
\* the except block, where nothing catches it: it leaves run
AfterCancelFailure(done, hotel, flight) == "failed"

\* the except block: one attempt of the cancellation run is waiting for
RunCompensation(w) ==
    /\ pc[w] \in Cancels
    /\ \E timeout \in Timeouts :
         LET act == pc[w]
             code == booking[w].confirmation_code
             next == NextCompensation(act, hotel_result[w], flight_result[w])
         IN  \E r \in {cancel_activity(db, act, code)} :
             /\ Attempted(w, act, r, timeout)
             /\ IF Delivered(r, timeout)
                THEN /\ pc' = [pc EXCEPT ![w] = next]
                     /\ attempt' = [attempt EXCEPT ![w] = 1]
                     /\ raised' = [raised EXCEPT ![w] =
                                     IF next = "failed" THEN error[w] ELSE @]
                ELSE IF should_retry(attempt[w])
                THEN /\ attempt' = [attempt EXCEPT ![w] = @ + 1]
                     /\ UNCHANGED <<pc, raised>>
                ELSE /\ pc' = [pc EXCEPT ![w] =
                                 AfterCancelFailure(act, hotel_result[w], flight_result[w])]
                     /\ attempt' = [attempt EXCEPT ![w] = 1]
                     /\ raised' = [raised EXCEPT ![w] = HandlerRaises(act, error[w])]
    /\ UNCHANGED <<booking, flight_result, hotel_result, car_result, error>>
    /\ UNCHANGED not_booking

\* --------------------------------------------------- ProcessOrderWorkflow
\* Python None for the string-valued fields
Unset == "None"

OrderForward == {"process_payment_activity", "reserve_inventory_activity",
                 "arrange_shipping_activity", "send_notification_activity"}
OrderCancels == {"cancel_shipping_activity", "cancel_inventory_activity",
                 "cancel_payment_activity"}

\* the except block from its top: `if self.shipping_id`, `if
\* self.order_reservations`, `if self.payment_id`, then `raise`
OrderFirstCompensation(shipping, reservations, payment) ==
    IF shipping # Unset THEN "cancel_shipping_activity"
    ELSE IF reservations # << >> THEN "cancel_inventory_activity"
    ELSE IF payment # Unset THEN "cancel_payment_activity"
    ELSE "failed"

\* the except block after cancellation `done` (for the inventory loop: of
\* reservation number idx) returned
OrderNextCompensation(done, idx, reservations, payment) ==
    IF done = "cancel_shipping_activity"
    THEN OrderFirstCompensation(Unset, reservations, payment)
    ELSE IF done = "cancel_inventory_activity" /\ idx < Len(reservations)
    THEN "cancel_inventory_activity"
    ELSE IF done = "cancel_inventory_activity"
    THEN OrderFirstCompensation(Unset, << >>, payment)
    ELSE "failed"

OrderAttempted(act, arg, ok, timeout) ==
    /\ timeout \in Timeouts
    /\ timeout = "after" => (ok /\ lost < MaxLost)
    /\ lost' = IF timeout = "after" THEN lost + 1 ELSE lost
    /\ olog' = Append(olog,
                 [activity |-> act, arg |-> arg, attempt |-> oattempt,
                  outcome |-> IF timeout = "none" /\ ok THEN "Success" ELSE "Failure"])

\* a child workflow's activity failed for good: the child fails, the parent's
\* await raises and run enters its except block with its fields as they are
OrderFails(act) ==
    LET first == OrderFirstCompensation(shipping_id, order_reservations, payment_id)
    IN  /\ opc' = first
        /\ oattempt' = 1
        /\ item' = 1
        /\ oerror' = act
        /\ oraised' = IF first = "failed" THEN act ELSE oraised

StartOrder ==
    /\ opc = "pending"
    /\ opc' = "process_payment_activity"
    /\ UNCHANGED <<order, oattempt, payment_id, order_reservations, shipping_id,
                   reservation_ids, item, oerror, oraised, olog, made, released, lost>>
    /\ UNCHANGED not_order

\* step 1: ProcessPaymentWorkflow.process_payment
RunProcessPayment ==
    /\ opc = "process_payment_activity"
    /\ \E timeout \in Timeouts, declined \in BOOLEAN :
         LET ok == ~declined
         IN  /\ OrderAttempted("process_payment_activity", 0, ok, timeout)
             /\ IF timeout = "none" /\ ok
                THEN /\ payment_id' = "PAY"
                     /\ oattempt' = 1
                     /\ item' = 1
                     /\ opc' = IF Len(order.items) = 0 THEN "arrange_shipping_activity"
                               ELSE "reserve_inventory_activity"
                     /\ UNCHANGED <<oerror, oraised>>
                ELSE IF should_retry(oattempt)
                THEN /\ oattempt' = oattempt + 1
                     /\ UNCHANGED <<payment_id, opc, item, oerror, oraised>>
                ELSE /\ OrderFails("process_payment_activity")
                     /\ UNCHANGED payment_id
    /\ UNCHANGED <<order, order_reservations, shipping_id, reservation_ids,
                   made, released>>
    /\ UNCHANGED not_order

\* step 2: ReserveInventoryWorkflow.reserve_inventory, one attempt for order.items[item]
RunReserveInventory ==
    /\ opc = "reserve_inventory_activity"
    /\ \E timeout \in Timeouts, unavailable \in BOOLEAN :
         LET ok == ~unavailable
             reservation_id == Cardinality(made) + 1
         IN  /\ OrderAttempted("reserve_inventory_activity", item, ok, timeout)
             /\ made' = IF Ran(timeout) /\ ok THEN made \cup {reservation_id} ELSE made
             /\ IF timeout = "none" /\ ok
                THEN /\ oattempt' = 1
                     /\ IF item < Len(order.items)
                        THEN /\ reservation_ids' = Append(reservation_ids, reservation_id)
                             /\ item' = item + 1
                             /\ UNCHANGED <<opc, order_reservations>>
                        ELSE /\ reservation_ids' = Append(reservation_ids, reservation_id)
                             /\ order_reservations' = reservation_ids'
                             /\ item' = 1
                             /\ opc' = "arrange_shipping_activity"
                     /\ UNCHANGED <<oerror, oraised>>
                ELSE IF should_retry(oattempt)
                THEN /\ oattempt' = oattempt + 1
                     /\ UNCHANGED <<opc, item, reservation_ids, order_reservations,
                                    oerror, oraised>>
                ELSE /\ OrderFails("reserve_inventory_activity")
                     /\ UNCHANGED <<reservation_ids, order_reservations>>
    /\ UNCHANGED <<order, payment_id, shipping_id, released>>
    /\ UNCHANGED not_order

\* step 3: ArrangeShippingWorkflow.arrange_shipping
RunArrangeShipping ==
    /\ opc = "arrange_shipping_activity"
    /\ \E timeout \in Timeouts, unavailable \in BOOLEAN :
         LET ok == ~unavailable
         IN  /\ OrderAttempted("arrange_shipping_activity", 0, ok, timeout)
             /\ IF timeout = "none" /\ ok
                THEN /\ shipping_id' = "SHIP"
                     /\ oattempt' = 1
                     /\ opc' = "send_notification_activity"
                     /\ UNCHANGED <<item, oerror, oraised>>
                ELSE IF should_retry(oattempt)
                THEN /\ oattempt' = oattempt + 1
                     /\ UNCHANGED <<shipping_id, opc, item, oerror, oraised>>
                ELSE /\ OrderFails("arrange_shipping_activity")
                     /\ UNCHANGED shipping_id
    /\ UNCHANGED <<order, payment_id, order_reservations, reservation_ids,
                   made, released>>
    /\ UNCHANGED not_order

\* step 4: SendNotificationWorkflow.send_notification inside the inner
\* try/except Exception: its failure is logged and run returns normally
RunSendNotification ==
    /\ opc = "send_notification_activity"
    /\ \E timeout \in Timeouts, unavailable \in BOOLEAN :
         LET ok == ~unavailable
         IN  /\ OrderAttempted("send_notification_activity", 0, ok, timeout)
             /\ IF timeout = "none" /\ ok
                THEN /\ oattempt' = 1
                     /\ opc' = "completed"
                ELSE IF should_retry(oattempt)
                THEN /\ oattempt' = oattempt + 1
                     /\ UNCHANGED opc
                ELSE /\ oattempt' = 1
                     /\ opc' = "completed"
    /\ UNCHANGED <<order, payment_id, order_reservations, shipping_id,
                   reservation_ids, item, oerror, oraised, made, released>>
    /\ UNCHANGED not_order

\* the except block: one attempt of the cancellation run is waiting for
RunOrderCompensation ==
    /\ opc \in OrderCancels
    /\ \E timeout \in Timeouts :
         LET act == opc
             arg == IF act = "cancel_inventory_activity"
                    THEN order_reservations[item] ELSE 0
             next == OrderNextCompensation(act, item, order_reservations, payment_id)
         IN  /\ OrderAttempted(act, arg, TRUE, timeout)
             /\ released' = IF act = "cancel_inventory_activity" /\ Ran(timeout)
                            THEN released \cup {arg} ELSE released
             /\ IF timeout = "none"
                THEN /\ opc' = next
                     /\ oattempt' = 1
                     /\ item' = IF act = "cancel_inventory_activity" /\ next = act
                                THEN item + 1 ELSE 1
                     /\ oraised' = IF next = "failed" THEN oerror ELSE oraised
                ELSE IF should_retry(oattempt)
                THEN /\ oattempt' = oattempt + 1
                     /\ UNCHANGED <<opc, item, oraised>>
                ELSE /\ opc' = "failed"
                     /\ oattempt' = 1
                     /\ item' = 1
                     /\ oraised' = HandlerRaises(act, oerror)
    /\ UNCHANGED <<order, payment_id, order_reservations, shipping_id,
                   reservation_ids, oerror, made>>
    /\ UNCHANGED not_order

\* ------------------------- HotelReservationSystem.process_reservation (payment)
\* validation and the availability check passed: the payment loop starts
StartReservation ==
    /\ hpc = "pending"
    /\ hpc' = "payment"
    /\ UNCHANGED <<hattempt, hpayment_id, hlog, hwaits>>
    /\ UNCHANGED not_hotel

\* variant: the wait grows by two seconds per attempt
wait_time_linear(attempt_index) == 2 * attempt_index

\* `wait_time = 2 ** attempt`
wait_time(attempt_index) == 2 ^ attempt_index

\* one iteration of `for attempt in range(3)`, and what follows the loop
PaymentAttempt ==
    /\ hpc = "payment"
    /\ \E gateway_timeout \in BOOLEAN :
         IF ~gateway_timeout
         THEN /\ hpayment_id' = "PAY"
              /\ hlog' = Append(hlog, "Success")
              /\ hpc' = "assign_room"
              /\ UNCHANGED <<hattempt, hwaits>>
         ELSE /\ hlog' = Append(hlog, "Failure")
              /\ hwaits' = IF hattempt < 2 THEN Append(hwaits, wait_time(hattempt))
                            ELSE hwaits
              /\ UNCHANGED hpayment_id
              /\ IF hattempt + 1 < PaymentRetries
                 THEN /\ hattempt' = hattempt + 1
                      /\ UNCHANGED hpc
                 ELSE /\ hpc' = "raised"
                      /\ UNCHANGED hattempt
    /\ UNCHANGED not_hotel

\* ------------------------------------ catalog sync (exercise 08A, solution)
suppliers == <<"AcmeCo", "GlobalTech", "MegaSupply", "PrimeParts", "DirectGoods">>
engines == <<"CompetitorPrice", "DynamicPrice", "MarketPrice">>

\* the fan-out steps of sync_catalog, in order
CatalogSteps == <<"fetch_products", "calculate_prices", "generate_thumbnail">>

\* number of activities a step gathers (thumbnails: all_products[:10])
Branches(step) ==
    CASE step = "fetch_products" -> Len(suppliers)
      [] step = "calculate_prices" -> Len(engines)
      [] step = "generate_thumbnail" -> MaxThumbnails

Unscheduled == [state |-> "unscheduled", attempt |-> 0]

\* workflow.execute_activity for every branch of the step: all are scheduled
Scheduled(step) == [b \in 1..Branches(step) |-> [state |-> "running", attempt |-> 1]]

\* asyncio.gather(..., return_exceptions=True) would wait for every branch
gather_return_exceptions(results) ==
    IF \A b \in DOMAIN results : results[b].state \in {"ok", "failed"}
    THEN "return" ELSE "wait"

\* asyncio.gather: raises the first exception, returns when all have a result
gather(results) ==
    IF \E b \in DOMAIN results : results[b].state = "failed" THEN "raise"
    ELSE IF \A b \in DOMAIN results : results[b].state = "ok" THEN "return"
    ELSE "wait"

\* client.execute_workflow(CatalogSyncSystem.sync_catalog): the first gather
StartSync ==
    /\ cpc = "pending"
    /\ cpc' = "fetch_products"
    /\ cbranch' = [cbranch EXCEPT !["fetch_products"] = Scheduled("fetch_products")]
    /\ UNCHANGED cresult
    /\ UNCHANGED not_catalog

\* one attempt of branch b of the step sync_catalog is awaiting, and what
\* the workflow does once the gather resolves
GatherAttempt(step, b, next) ==
    /\ cpc = step
    /\ b \in 1..Branches(step)
    /\ cbranch[step][b].state = "running"
    /\ \E ok \in BOOLEAN :
         LET n == cbranch[step][b].attempt
             outcome == IF ok THEN [state |-> "ok", attempt |-> 0]
                        ELSE IF should_retry(n)
                             THEN [state |-> "running", attempt |-> n + 1]
                             ELSE [state |-> "failed", attempt |-> n]
             results == [cbranch[step] EXCEPT ![b] = outcome]
         IN  CASE gather(results) = "wait" ->
                    /\ cbranch' = [cbranch EXCEPT ![step] = results]
                    /\ UNCHANGED <<cpc, cresult>>
               [] gather(results) = "raise" ->
                    /\ cbranch' = [cbranch EXCEPT ![step] = results]
                    /\ cpc' = "done"
                    /\ cresult' = "failure"
               [] gather(results) = "return" /\ next = "done" ->
                    /\ cbranch' = [cbranch EXCEPT ![step] = results]
                    /\ cpc' = "done"
                    /\ cresult' = "success"
               [] gather(results) = "return" /\ next # "done" ->
                    /\ cbranch' = [cbranch EXCEPT ![step] = results,
                                                  ![next] = Scheduled(next)]
                    /\ cpc' = next
                    /\ UNCHANGED cresult
    /\ UNCHANGED not_catalog

FetchProducts(b) ==
    /\ cpc = "fetch_products"
    /\ GatherAttempt("fetch_products", b, "calculate_prices")

CalculatePrices(b) ==
    /\ cpc = "calculate_prices"
    /\ GatherAttempt("calculate_prices", b, "generate_thumbnail")

GenerateThumbnail(b) ==
    /\ cpc = "generate_thumbnail"
    /\ GatherAttempt("generate_thumbnail", b, "done")

CatalogInit ==
    /\ cbranch = [step \in {"fetch_products", "calculate_prices", "generate_thumbnail"} |->
                    [b \in 1..Branches(step) |-> Unscheduled]]
    /\ cresult = "none"


\* ------------------------------- order processing (exercise 02, workflow)
\* the orders: the quantities of their items (of one SKU)
Orders == {<<1>>, <<2>>, <<1, 1>>}

\* InventoryDatabase.check_availability
check_availability(stock, quantity) == stock >= quantity

\* validate_order raises ValueError for an empty order or an unavailable item
validate_order(o, stock) ==
    /\ Len(o) > 0
    /\ \A i \in 1..Len(o) : check_availability(stock, o[i])

\* reserve_inventory returns inside its loop: it reserves the first item only
reserve_inventory(o, stock) ==
    IF Len(o) = 0 THEN [ok |-> TRUE, stock |-> stock]
    ELSE IF ~check_availability(stock, o[1]) THEN [ok |-> FALSE, stock |-> stock]
    ELSE [ok |-> TRUE, stock |-> stock - o[1]]

StartOrderProcessing ==
    /\ ppc = "pending"
    /\ ppc' = "validate_order"
    /\ UNCHANGED <<porder, pattempt, ppayment_id, pinventory, presult, pfailed>>
    /\ UNCHANGED not_processing

\* variant: the except block re-raises after logging, and run fails
ProcessingStep_reraises(act, ok, next) ==
    /\ ppc = act
    /\ IF ok
       THEN /\ pattempt' = 1
            /\ ppc' = next
            /\ presult' = IF next = "done" THEN "True" ELSE presult
            /\ UNCHANGED pfailed
       ELSE IF should_retry(pattempt)
       THEN /\ pattempt' = pattempt + 1
            /\ UNCHANGED <<ppc, presult, pfailed>>
       ELSE /\ pfailed' = act
            /\ ppc' = "failed"
            /\ UNCHANGED <<pattempt, presult>>
    /\ UNCHANGED porder
    /\ UNCHANGED not_processing

\* one attempt of the activity run awaits; the except block of run returns
\* OrderResult(success=False) and rolls nothing back
ProcessingStep(act, ok, next) ==
    /\ ppc = act
    /\ IF ok
       THEN /\ pattempt' = 1
            /\ ppc' = next
            /\ presult' = IF next = "done" THEN "True" ELSE presult
            /\ UNCHANGED pfailed
       ELSE IF should_retry(pattempt)
       THEN /\ pattempt' = pattempt + 1
            /\ UNCHANGED <<ppc, presult, pfailed>>
       ELSE /\ pfailed' = act
            /\ ppc' = "done"
            /\ presult' = "False"
            /\ UNCHANGED pattempt
    /\ UNCHANGED porder
    /\ UNCHANGED not_processing

ValidateOrder ==
    /\ \E timeout \in BOOLEAN :
         ProcessingStep("validate_order",
                        validate_order(porder, pinventory) /\ ~timeout,
                        "calculate_total_with_shipping")
    /\ UNCHANGED <<ppayment_id, pinventory>>

CalculateTotalWithShipping ==
    /\ \E timeout \in BOOLEAN :
         ProcessingStep("calculate_total_with_shipping", ~timeout, "process_payment")
    /\ UNCHANGED <<ppayment_id, pinventory>>

ProcessPayment ==
    /\ \E gateway_timeout \in BOOLEAN :
         /\ ProcessingStep("process_payment", ~gateway_timeout, "reserve_inventory")
         /\ ppayment_id' = IF gateway_timeout THEN ppayment_id ELSE "PAY_1"
    /\ UNCHANGED pinventory

ReserveInventory ==
    /\ LET r == reserve_inventory(porder, pinventory)
       IN  /\ ProcessingStep("reserve_inventory", r.ok, "schedule_shipment")
           /\ pinventory' = r.stock
    /\ UNCHANGED ppayment_id

ScheduleShipment ==
    /\ \E api_error \in BOOLEAN :
         ProcessingStep("schedule_shipment", ~api_error, "done")
    /\ UNCHANGED <<ppayment_id, pinventory>>

ProcessingInit ==
    /\ pattempt = 1
    /\ ppayment_id = Unset
    /\ pinventory = SeedStock
    /\ presult = "none"
    /\ pfailed = "none"

\* ----------------------------- email verification (exercise 025, workflow)
StartVerification ==
    /\ epc = "pending"
    /\ epc' = "generate_token"
    /\ UNCHANGED <<eattempt, token, link, eresult, efailed>>
    /\ UNCHANGED not_email

\* the return statement after the try block reads token and link: with
\* either unbound it raises UnboundLocalError, which fails the workflow task
Return(t, l) == IF t = "bound" /\ l = "bound" THEN "returned" ELSE "task_failed"

\* one attempt of the activity run awaits, and what run does after it
VerificationStep(act, ok, next) ==
    /\ epc = act
    /\ IF ok
       THEN /\ eattempt' = 1
            /\ token' = IF act = "generate_token" THEN "bound" ELSE token
            /\ link' = IF act = "send_verification_email" THEN "bound" ELSE link
            /\ epc' = IF next = "return" THEN Return(token', link') ELSE next
            /\ eresult' = IF next = "return" /\ Return(token', link') = "returned"
                          THEN "True" ELSE eresult
            /\ UNCHANGED efailed
       ELSE IF should_retry(eattempt)
       THEN /\ eattempt' = eattempt + 1
            /\ UNCHANGED <<epc, token, link, eresult, efailed>>
       ELSE /\ efailed' = act
            /\ epc' = Return(token, link)
            /\ eresult' = IF Return(token, link) = "returned" THEN "True" ELSE eresult
            /\ UNCHANGED <<eattempt, token, link>>
    /\ UNCHANGED not_email

GenerateToken ==
    /\ epc = "generate_token"
    /\ \E timeout \in BOOLEAN :
         VerificationStep("generate_token", ~timeout, "send_verification_email")

SendVerificationEmail ==
    /\ epc = "send_verification_email"
    /\ \E unavailable \in BOOLEAN :
         VerificationStep("send_verification_email", ~unavailable, "return")

EmailInit ==
    /\ eattempt = 1
    /\ token = "unbound"
    /\ link = "unbound"
    /\ eresult = "none"
    /\ efailed = "none"

\* ------------------- BookingWorkflow of exercise-05-booking/workflow.py
\* The run the solution replaces.  It draws its own confirmation code
\* (workflow.uuid4) and never stores a booking request, so get_booking_request
\* raises KeyError in every attempt of book_flight.
draft_book_flight(d) == Raise(d, "KeyError")

\* run after one attempt of book_flight.  Were the attempt to succeed, the log
\* line reading flight_result.flight_price raises AttributeError (the
\* reservation has no such field) inside the try block; `except Exception`
\* catches that as it catches the ActivityError of the last failed attempt,
\* and itself raises AttributeError on self.bookings: the workflow task fails
\* before any later step, the confirmation email step included.
DraftControl(delivered, attempt_number) ==
    IF delivered THEN [pc |-> "task_failed", attempt |-> 1]
    ELSE IF should_retry(attempt_number)
    THEN [pc |-> "book_flight", attempt |-> attempt_number + 1]
    ELSE [pc |-> "task_failed", attempt |-> 1]

StartDraft ==
    /\ dpc = "pending"
    /\ dpc' = "book_flight"
    /\ UNCHANGED <<dattempt, dlog>>
    /\ UNCHANGED not_draft

DraftBookFlight ==
    /\ dpc = "book_flight"
    /\ \E timeout \in {"none", "before"} :
         \E r \in {draft_book_flight(db)} :
             \E next \in {DraftControl(Delivered(r, timeout), dattempt)} :
                 /\ dlog' = Append(dlog,
                        [activity |-> "book_flight", attempt |-> dattempt,
                         outcome |-> IF Delivered(r, timeout)
                                     THEN "Success" ELSE "Failure"])
                 /\ dpc' = next.pc
                 /\ dattempt' = next.attempt
    /\ UNCHANGED not_draft

DraftInit ==
    /\ dattempt = 1
    /\ dlog = << >>

\* ------------- OrderProcessor.process_payment (exercise-02-orders/pre-temporal)
\* process_order calls process_payment: the retry loop starts
StartProcessPayment ==
    /\ rpc = "pending"
    /\ rpc' = "payment"
    /\ UNCHANGED <<rattempt, rlog, rwaits>>
    /\ UNCHANGED not_retry

\* `time.sleep((attempt + 1) * 2)`
retry_sleep(attempt_index) == (attempt_index + 1) * 2

\* one iteration of `for attempt in range(max_attempts)`
ProcessPaymentAttempt ==
    /\ rpc = "payment"
    /\ \E gateway_timeout \in BOOLEAN :
         IF ~gateway_timeout
         THEN /\ rlog' = Append(rlog, "Success")
              /\ rpc' = "returned"
              /\ UNCHANGED <<rattempt, rwaits>>
         ELSE /\ rlog' = Append(rlog, "Failure")
              /\ IF rattempt < max_attempts - 1
                 THEN /\ rwaits' = Append(rwaits, retry_sleep(rattempt))
                      /\ rattempt' = rattempt + 1
                      /\ UNCHANGED rpc
                 ELSE /\ rpc' = "raised"
                      /\ UNCHANGED <<rattempt, rwaits>>
    /\ UNCHANGED not_retry

RetryInit ==
    /\ rattempt = 0
    /\ rlog = << >>
    /\ rwaits = << >>

\* ------------------------- ids of the order workflows (exercise 07, solution)
\* A string is the sequence of its characters and an f-string their
\* concatenation.  The order ids are these of the NumOrderIds first orders,
\* the hex digits stand for uuid.uuid4().hex[:8].
Digits == <<"1", "2", "3", "4", "5">>
OrderIds == {<<"O", "R", "D", "-", Digits[i]>> : i \in 1..NumOrderIds}
Hex == {<<"a">>, <<"b">>}

\* f"order-workflow-{order.order_id}-{uuid.uuid4().hex[:8]}"
workflow_id(order_id, hex) ==
    <<"o", "r", "d", "e", "r", "-", "w", "o", "r", "k", "f", "l", "o", "w", "-">>
        \o order_id \o <<"-">> \o hex

ChildPrefix ==
    << <<"p", "a", "y", "m", "e", "n", "t", "-">>,
       <<"i", "n", "v", "e", "n", "t", "o", "r", "y", "-">>,
       <<"s", "h", "i", "p", "p", "i", "n", "g", "-">>,
       <<"n", "o", "t", "i", "f", "i", "c", "a", "t", "i", "o", "n", "-">> >>

\* f"payment-{order.order_id}" and the three others
child_workflow_id(step, order_id) == ChildPrefix[step] \o order_id

\* client.start_workflow; the service refuses an id that is already in use
StartWorkflow(order_id, hex) ==
    /\ \A w \in started : w.id # workflow_id(order_id, hex)
    /\ started' = started \cup {[id |-> workflow_id(order_id, hex),
                                  order_id |-> order_id]}
    /\ UNCHANGED children
    /\ UNCHANGED not_keys

\* the next workflow.execute_child_workflow of run of the order workflow w
ExecuteChildWorkflow(w) ==
    /\ \E step \in {Cardinality({c \in children : c.parent = w.id}) + 1} :
         /\ step <= Len(ChildPrefix)
         /\ children' = children \cup
                {[parent |-> w.id, step |-> step,
                  id |-> child_workflow_id(step, w.order_id)]}
    /\ UNCHANGED started
    /\ UNCHANGED not_keys

KeyInit ==
    /\ started = {}
    /\ children = {}

\* ------------------------ HotelReservationWorkflow (exercise 03, workflow)
\* the classes an exception is an instance of
Bases(exception) ==
    CASE exception = "ActivityError" ->
             {"ActivityError", "FailureError", "TemporalError", "Exception"}
      [] exception = "ApplicationError" ->
             {"ApplicationError", "FailureError", "TemporalError", "Exception"}

\* `except cls` catches the exception
Catches(cls, exception) == cls \in Bases(exception)

\* an activity that failed for good makes the await in run raise ActivityError;
\* where run goes from there: handler is the class named by the except clause
\* around the await ("" outside any try), fallback the start of its block
AfterFailure(handler, fallback) ==
    IF handler # "" /\ Catches(handler, "ActivityError") THEN fallback ELSE "failed"

\* one attempt of the activity run is waiting for
ReservationAttempt(act, ok, next, handler, fallback) ==
    /\ reslog' = Append(reslog, [activity |-> act, attempt |-> resattempt,
                                 outcome |-> IF ok THEN "Success" ELSE "Failure"])
    /\ IF ok
       THEN /\ respc' = next
            /\ resattempt' = 1
       ELSE IF should_retry(resattempt)
       THEN /\ resattempt' = resattempt + 1
            /\ UNCHANGED respc
       ELSE /\ respc' = AfterFailure(handler, fallback)
            /\ resattempt' = 1

\* validate_res_request passed: run reaches its first await
StartHotelReservation ==
    /\ respc = "pending"
    /\ respc' = "check_room_availability"
    /\ UNCHANGED <<resattempt, available_rooms, reslog>>
    /\ UNCHANGED not_reservation

\* found: the number of rooms of the type that are available
CheckRoomAvailability ==
    /\ respc = "check_room_availability"
    /\ \E timeout \in {"none", "before"}, found \in 0..NumRooms :
         /\ ReservationAttempt("check_room_availability", timeout = "none",
                               "collect_payment", "", "")
         /\ available_rooms' = IF timeout = "none" THEN found ELSE available_rooms
    /\ UNCHANGED not_reservation

CollectPayment ==
    /\ respc = "collect_payment"
    /\ \E gateway_timeout \in BOOLEAN :
         ReservationAttempt("collect_payment", ~gateway_timeout, "assign_room", "", "")
    /\ UNCHANGED available_rooms
    /\ UNCHANGED not_reservation

\* `available_rooms[0]` raises IndexError when the list is empty
AssignRoom ==
    /\ respc = "assign_room"
    /\ \E system_error \in BOOLEAN :
         ReservationAttempt("assign_room", ~system_error /\ available_rooms > 0,
                            "send_email_notification", "", "")
    /\ UNCHANGED available_rooms
    /\ UNCHANGED not_reservation

\* The body raises in every attempt: Exception("Email service unavailable")
\* when the draw says so, and otherwise TypeError, build_confirmation_message
\* being called without its two arguments.  `except ApplicationError` is the
\* clause around the await.
SendEmailNotification ==
    /\ respc = "send_email_notification"
    /\ \E unavailable \in BOOLEAN :
         ReservationAttempt("send_email_notification", FALSE, "completed",
                            "ApplicationError", "send_sms_notification")
    /\ UNCHANGED available_rooms
    /\ UNCHANGED not_reservation

ReservationInit ==
    /\ resattempt = 1
    /\ available_rooms = 0
    /\ reslog = << >>

\* ------------- several HotelReservationWorkflow runs (exercise 03, client)
Guests == 1..NumGuests

\* HotelData(): a new object with the rooms of its constructor
HotelData ==
    [rooms |-> << [room_number |-> "101", room_type |-> "standard", is_available |-> TRUE],
                  [room_number |-> "102", room_type |-> "standard", is_available |-> TRUE],
                  [room_number |-> "103", room_type |-> "standard", is_available |-> TRUE],
                  [room_number |-> "201", room_type |-> "deluxe", is_available |-> TRUE],
                  [room_number |-> "202", room_type |-> "deluxe", is_available |-> TRUE],
                  [room_number |-> "301", room_type |-> "suites", is_available |-> TRUE] >>]

\* the room types the client asks for
RoomTypes == {"standard", "deluxe"}

\* hotel = HotelData(), then the rooms of the type that are available
check_room_availability(res) ==
    LET hotel == HotelData
    IN  SelectSeq(hotel.rooms, LAMBDA r : r.room_type = res.room_type /\ r.is_available)

\* [ok, room_number]: marks its own copy of the first listed room and returns
\* its number; system_error selects `random.random() < 0.15`
assign_room(rooms, system_error) ==
    IF system_error \/ rooms = << >>
    THEN [ok |-> FALSE, room_number |-> ""]
    ELSE [ok |-> TRUE, room_number |-> rooms[1].room_number]

\* the room numbers the runs have been given
AssignedRooms == {groom_number[g] : g \in Guests} \ {""}

\* one attempt of the activity the run of guest g is waiting for; no except
\* clause surrounds these awaits
GuestAttempt(g, act, ok, next) ==
    /\ gpc[g] = act
    /\ IF ok
       THEN /\ gpc' = [gpc EXCEPT ![g] = next]
            /\ gattempt' = [gattempt EXCEPT ![g] = 1]
       ELSE IF should_retry(gattempt[g])
       THEN /\ gattempt' = [gattempt EXCEPT ![g] = @ + 1]
            /\ UNCHANGED gpc
       ELSE /\ gpc' = [gpc EXCEPT ![g] = "failed"]
            /\ gattempt' = [gattempt EXCEPT ![g] = 1]
    /\ UNCHANGED gres
    /\ UNCHANGED not_guests

GuestStart(g) ==
    /\ gpc[g] = "pending"
    /\ gpc' = [gpc EXCEPT ![g] = "check_room_availability"]
    /\ UNCHANGED <<gattempt, gres, grooms, groom_number>>
    /\ UNCHANGED not_guests

GuestCheckRoomAvailability(g) ==
    /\ \E timeout \in {"none", "before"} :
         /\ GuestAttempt(g, "check_room_availability", timeout = "none",
                         "collect_payment")
         /\ grooms' = [grooms EXCEPT ![g] =
                          IF timeout = "none"
                          THEN check_room_availability(gres[g])
                          ELSE @]
    /\ UNCHANGED groom_number

GuestCollectPayment(g) ==
    /\ \E gateway_timeout \in BOOLEAN :
         GuestAttempt(g, "collect_payment", ~gateway_timeout, "assign_room")
    /\ UNCHANGED <<grooms, groom_number>>

GuestAssignRoom(g) ==
    /\ \E system_error \in BOOLEAN :
         \E r \in {assign_room(grooms[g], system_error)} :
             /\ GuestAttempt(g, "assign_room", r.ok, "send_email_notification")
             /\ groom_number' = [groom_number EXCEPT ![g] =
                                    IF r.ok THEN r.room_number ELSE @]
    /\ UNCHANGED grooms

GuestInit ==
    /\ gattempt = [g \in Guests |-> 1]
    /\ grooms = [g \in Guests |-> << >>]
    /\ groom_number = [g \in Guests |-> ""]

GuestIdle ==
    /\ gpc = [g \in Guests |-> "idle"]
    /\ gres = [g \in Guests |-> None]

GuestNext ==
    \/ \E g \in Guests : GuestStart(g)
    \/ \E g \in Guests : GuestCheckRoomAvailability(g)
    \/ \E g \in Guests : GuestCollectPayment(g)
    \/ \E g \in Guests : GuestAssignRoom(g)

\* ----------------------- the inventory database (exercise 02, inventory)
Skus == {"SKU001", "SKU002"}

\* the items an order may list; SKU999 is not in the database
Items == [sku : Skus \cup {"SKU999"}, quantity : 1..MaxQuantity]

ItemLists == {<< >>} \cup {<<i>> : i \in Items} \cup {<<i, j>> : i \in Items, j \in Items}

\* InventoryDatabase.check_availability
InventoryDatabase_check_availability(inv, sku, quantity) ==
    IF sku \notin DOMAIN inv THEN FALSE ELSE inv[sku] >= quantity

\* InventoryDatabase.reserve_inventory: [ok, inv], ok = FALSE is the raised
\* ApplicationError("Insufficient stock")
InventoryDatabase_reserve_inventory(inv, sku, quantity) ==
    IF sku \in DOMAIN inv /\ inv[sku] >= quantity
    THEN [ok |-> TRUE, inv |-> [inv EXCEPT ![sku] = @ - quantity]]
    ELSE [ok |-> FALSE, inv |-> inv]

\* variant: the activity decrements every item without asking the database,
\* as the loop of OrderProcessor.reserve_inventory does
reserve_inventory_unchecked(items, inv) ==
    IF items = << >> THEN [ok |-> TRUE, inv |-> inv]
    ELSE IF items[1].sku \notin DOMAIN inv THEN [ok |-> FALSE, inv |-> inv]
    ELSE [ok |-> TRUE, inv |-> [inv EXCEPT ![items[1].sku] = @ - items[1].quantity]]

\* the reserve_inventory activity on the items of its order: [ok, inv]; it
\* returns inside its loop, after the first item
reserve_inventory_activity(items, inv) ==
    IF items = << >> THEN [ok |-> TRUE, inv |-> inv]
    ELSE IF ~InventoryDatabase_check_availability(inv, items[1].sku, items[1].quantity)
    THEN [ok |-> FALSE, inv |-> inv]
    ELSE InventoryDatabase_reserve_inventory(inv, items[1].sku, items[1].quantity)

\* one execution of the activity, for whichever order and attempt it is: the
\* body has no await and runs without interruption
CallReserveInventory(items) ==
    /\ \E r \in {reserve_inventory_activity(items, inventory_db)} :
         /\ inventory_db' = r.inv
         /\ last_call' = [items |-> items, ok |-> r.ok]
    /\ UNCHANGED not_inventory

InventoryInit ==
    /\ inventory_db = [sku \in Skus |-> SeedStock]
    /\ last_call = None

InventoryNext == \E items \in ItemLists : CallReserveInventory(items)

\* --------------------------------- the Great Wall game (exercise 06)
\* wall_sections: one per player plus two, numbered from 0
Sections == 0..(NumPlayers + 1)

\* the sections a player defends, which WALL_SECTION placements fortify
Defended == 0..(NumPlayers - 1)

phase_order == <<"command", "worker_placement", "resolution", "battle", "cleanup">>

\* GameState.is_game_over
is_game_over(round, wall) ==
    IF round > max_rounds THEN TRUE
    ELSE Cardinality(wall) >= Cardinality(Sections) \div 2

\* index of phase in phase_order, 0 when it is not in it
PhaseIndex(phase) ==
    IF \E i \in 1..Len(phase_order) : phase_order[i] = phase
    THEN CHOOSE i \in 1..Len(phase_order) : phase_order[i] = phase
    ELSE 0

\* variant: the end of a round starts the next one without counting it
next_phase_same_round(phase, round, wall) ==
    IF phase = "setup" THEN [phase |-> "command", round |-> round]
    ELSE IF PhaseIndex(phase) = 0 THEN [phase |-> phase, round |-> round]
    ELSE IF PhaseIndex(phase) < Len(phase_order)
    THEN [phase |-> phase_order[PhaseIndex(phase) + 1], round |-> round]
    ELSE [phase |-> IF ~is_game_over(round, wall) THEN "command" ELSE "game_over",
          round |-> round]

\* GameState.next_phase: [phase, round] after the call
next_phase(phase, round, wall) ==
    IF phase = "setup" THEN [phase |-> "command", round |-> round]
    ELSE IF PhaseIndex(phase) = 0 THEN [phase |-> phase, round |-> round]
    ELSE IF PhaseIndex(phase) < Len(phase_order)
    THEN [phase |-> phase_order[PhaseIndex(phase) + 1], round |-> round]
    ELSE [phase |-> IF ~is_game_over(round + 1, wall) THEN "command" ELSE "game_over",
          round |-> round + 1]

\* self.state.next_phase() at the end of an execute_..._phase method, the
\* wall being wall by then
CallNextPhase(wall) ==
    \E after \in {next_phase(current_phase, current_round, wall)} :
        /\ current_phase' = after.phase
        /\ current_round' = after.round
        /\ breached' = wall

\* play_game: start_game
StartGame ==
    /\ gamepc = "play_game"
    /\ current_phase' = "command"
    /\ gamepc' = "loop"
    /\ UNCHANGED <<current_round, breached, rounds_played>>
    /\ UNCHANGED not_game

\* play_game: the test of its while loop, and the entry of play_round
PlayRound ==
    /\ gamepc = "loop"
    /\ IF is_game_over(current_round, breached)
       THEN /\ gamepc' = "done"
            /\ UNCHANGED rounds_played
       ELSE /\ gamepc' = "execute_command_phase"
            /\ rounds_played' = rounds_played + 1
    /\ UNCHANGED <<current_phase, current_round, breached>>
    /\ UNCHANGED not_game

ExecuteCommandPhase ==
    /\ gamepc = "execute_command_phase"
    /\ CallNextPhase(breached)
    /\ gamepc' = "execute_worker_placement_phase"
    /\ UNCHANGED rounds_played
    /\ UNCHANGED not_game

ExecuteWorkerPlacementPhase ==
    /\ gamepc = "execute_worker_placement_phase"
    /\ CallNextPhase(breached)
    /\ gamepc' = "execute_resolution_phase"
    /\ UNCHANGED rounds_played
    /\ UNCHANGED not_game

\* fortified: the defended sections that a raised fortification_level takes
\* out of the breached ones
ExecuteResolutionPhase ==
    /\ gamepc = "execute_resolution_phase"
    /\ \E fortified \in SUBSET (breached \cap Defended) :
         CallNextPhase(breached \ fortified)
    /\ gamepc' = "execute_battle_phase"
    /\ UNCHANGED rounds_played
    /\ UNCHANGED not_game

\* damaged: the sections that take_damage breaches
ExecuteBattlePhase ==
    /\ gamepc = "execute_battle_phase"
    /\ \E damaged \in SUBSET (Sections \ breached) :
         CallNextPhase(breached \cup damaged)
    /\ gamepc' = "execute_cleanup_phase"
    /\ UNCHANGED rounds_played
    /\ UNCHANGED not_game

ExecuteCleanupPhase ==
    /\ gamepc = "execute_cleanup_phase"
    /\ CallNextPhase(breached)
    /\ gamepc' = "loop"
    /\ UNCHANGED rounds_played
    /\ UNCHANGED not_game

\* a caller of GameState calls next_phase on the state as it is
NextPhase ==
    /\ gamepc = "calls"
    /\ CallNextPhase(breached)
    /\ UNCHANGED <<gamepc, rounds_played>>
    /\ UNCHANGED not_game

\* between such calls sections are damaged and fortified
WallChanges ==
    /\ gamepc = "calls"
    /\ \E wall \in SUBSET Sections : breached' = wall
    /\ UNCHANGED <<current_phase, current_round, gamepc, rounds_played>>
    /\ UNCHANGED not_game

\* GreatWallGame.__init__: the state _create_initial_state returns
GameInit ==
    /\ current_phase = "setup"
    /\ current_round = 1
    /\ breached = {}
    /\ rounds_played = 0

GameNext ==
    \/ StartGame
    \/ PlayRound
    \/ ExecuteCommandPhase
    \/ ExecuteWorkerPlacementPhase
    \/ ExecuteResolutionPhase
    \/ ExecuteBattlePhase
    \/ ExecuteCleanupPhase
    \/ NextPhase
    \/ WallChanges

KeyNext ==
    \/ \E order_id \in OrderIds, hex \in Hex : StartWorkflow(order_id, hex)
    \/ \E w \in started : ExecuteChildWorkflow(w)

BookingInit ==
    /\ db = SeedDB
    /\ \E S \in {{}} \cup {{w} : w \in Codes} :
         /\ booking \in [Codes -> UNION {Requests(c) : c \in Codes} \cup {None}]
         /\ \A c \in S : booking[c] \in Requests(c)
         /\ \A c \in Codes \ S : booking[c] = None
         /\ pc = [c \in Codes |-> IF c \in S THEN "pending" ELSE "idle"]
    /\ attempt = [c \in Codes |-> 1]
    /\ flight_result = [c \in Codes |-> None]
    /\ hotel_result = [c \in Codes |-> None]
    /\ car_result = [c \in Codes |-> None]
    /\ error = [c \in Codes |-> "none"]
    /\ raised = [c \in Codes |-> "none"]
    /\ log = [c \in Codes |-> << >>]
    /\ applied = [c \in Codes |-> [a \in Activities |-> 0]]
    /\ held = [c \in Codes |-> {}]
    /\ last_failure = [c \in Codes |-> ""]
    /\ lost = 0

OrderIdle ==
    /\ order = None
    /\ opc = "idle"

OrderInit ==
    /\ oattempt = 1
    /\ payment_id = Unset
    /\ order_reservations = << >>
    /\ shipping_id = Unset
    /\ reservation_ids = << >>
    /\ item = 1
    /\ oerror = "none"
    /\ oraised = "none"
    /\ olog = << >>
    /\ made = {}
    /\ released = {}

HotelInit ==
    /\ hattempt = 0
    /\ hpayment_id = Unset
    /\ hlog = << >>
    /\ hwaits = << >>

\* one of the programs has been started, the others are idle
Programs == {"booking", "order", "hotel", "catalog", "processing", "email", "draft",
             "payment", "reservation"}

Init ==
    /\ BookingInit
    /\ OrderInit
    /\ HotelInit
    /\ CatalogInit
    /\ ProcessingInit
    /\ EmailInit
    /\ DraftInit
    /\ RetryInit
    /\ KeyInit
    /\ ReservationInit
    /\ GuestInit /\ GuestIdle
    /\ InventoryInit
    /\ GameInit /\ gamepc = "idle"
    /\ \E program \in Programs :
         /\ IF program = "booking"
            THEN \E w \in Codes : pc[w] = "pending"
            ELSE \A w \in Codes : pc[w] = "idle"
         /\ IF program = "order"
            THEN /\ \E n \in 0..MaxItems :
                      order = [order_id |-> "ORD-1", items |-> [i \in 1..n |-> i]]
                 /\ opc = "pending"
            ELSE OrderIdle
         /\ hpc = IF program = "hotel" THEN "pending" ELSE "idle"
         /\ cpc = IF program = "catalog" THEN "pending" ELSE "idle"
         /\ IF program = "processing"
            THEN porder \in Orders /\ ppc = "pending"
            ELSE porder = << >> /\ ppc = "idle"
         /\ epc = IF program = "email" THEN "pending" ELSE "idle"
         /\ dpc = IF program = "draft" THEN "pending" ELSE "idle"
         /\ rpc = IF program = "payment" THEN "pending" ELSE "idle"
         /\ respc = IF program = "reservation" THEN "pending" ELSE "idle"

Next ==
    \/ \E w \in Codes : StartBooking(w)
    \/ \E w \in Codes : RunStoreBookingRequest(w)
    \/ \E w \in Codes : RunBookFlight(w)
    \/ \E w \in Codes : RunBookHotel(w)
    \/ \E w \in Codes : RunBookCar(w)
    \/ \E w \in Codes : RunAcceptPayment(w)
    \/ \E w \in Codes : RunCompensation(w)
    \/ StartOrder
    \/ RunProcessPayment
    \/ RunReserveInventory
    \/ RunArrangeShipping
    \/ RunSendNotification
    \/ RunOrderCompensation
    \/ StartReservation
    \/ PaymentAttempt
    \/ StartSync
    \/ \E b \in 1..Len(suppliers) : FetchProducts(b)
    \/ \E b \in 1..Len(engines) : CalculatePrices(b)
    \/ \E b \in 1..MaxThumbnails : GenerateThumbnail(b)
    \/ StartOrderProcessing
    \/ ValidateOrder
    \/ CalculateTotalWithShipping
    \/ ProcessPayment
    \/ ReserveInventory
    \/ ScheduleShipment
    \/ StartVerification
    \/ GenerateToken
    \/ SendVerificationEmail
    \/ StartDraft
    \/ DraftBookFlight
    \/ StartProcessPayment
    \/ ProcessPaymentAttempt
    \/ StartHotelReservation
    \/ CheckRoomAvailability
    \/ CollectPayment
    \/ AssignRoom
    \/ SendEmailNotification

Spec == Init /\ [][Next]_vars

\* the order client and the child workflows of the order workflows it started
KeyClientInit ==
    /\ BookingInit /\ (\A w \in Codes : pc[w] = "idle")
    /\ OrderInit /\ OrderIdle
    /\ HotelInit /\ hpc = "idle"
    /\ CatalogInit /\ cpc = "idle"
    /\ ProcessingInit /\ porder = << >> /\ ppc = "idle"
    /\ EmailInit /\ epc = "idle"
    /\ DraftInit /\ dpc = "idle"
    /\ RetryInit /\ rpc = "idle"
    /\ KeyInit
    /\ ReservationInit /\ respc = "idle"
    /\ GuestInit /\ GuestIdle
    /\ InventoryInit
    /\ GameInit /\ gamepc = "idle"

KeySpec == KeyClientInit /\ [][KeyNext]_vars

\* the hotel client and the reservation workflows it started; the runs may
\* overlap when several clients are at work
GuestClientInit ==
    /\ BookingInit /\ (\A w \in Codes : pc[w] = "idle")
    /\ OrderInit /\ OrderIdle
    /\ HotelInit /\ hpc = "idle"
    /\ CatalogInit /\ cpc = "idle"
    /\ ProcessingInit /\ porder = << >> /\ ppc = "idle"
    /\ EmailInit /\ epc = "idle"
    /\ DraftInit /\ dpc = "idle"
    /\ RetryInit /\ rpc = "idle"
    /\ KeyInit
    /\ ReservationInit /\ respc = "idle"
    /\ GuestInit
    /\ gpc = [g \in Guests |-> "pending"]
    /\ gres \in [Guests -> [room_type : RoomTypes]]
    /\ InventoryInit
    /\ GameInit /\ gamepc = "idle"

GuestSpec == GuestClientInit /\ [][GuestNext]_vars

\* the inventory database under the calls of the reserve_inventory activity
\* made by the order workflows of the worker, in any number and order
InventoryClientInit == KeyClientInit

\* a new game, which play_game plays or whose state a caller advances
GameClientInit ==
    /\ BookingInit /\ (\A w \in Codes : pc[w] = "idle")
    /\ OrderInit /\ OrderIdle
    /\ HotelInit /\ hpc = "idle"
    /\ CatalogInit /\ cpc = "idle"
    /\ ProcessingInit /\ porder = << >> /\ ppc = "idle"
    /\ EmailInit /\ epc = "idle"
    /\ DraftInit /\ dpc = "idle"
    /\ RetryInit /\ rpc = "idle"
    /\ KeyInit
    /\ ReservationInit /\ respc = "idle"
    /\ GuestInit /\ GuestIdle
    /\ InventoryInit
    /\ GameInit
    /\ gamepc \in {"play_game", "calls"}

GameSpec == GameClientInit /\ [][GameNext]_vars

\* each method returns and the caller goes on
GameLiveSpec == GameSpec /\ WF_vars(GameNext)

InventorySpec == InventoryClientInit /\ [][InventoryNext]_vars

\* ------------------------------------ cancellation of a running workflow
\* a cancellation request has been delivered to run
CancelRequested(w) ==
    \E i \in 1..Len(log[w]) : log[w][i].outcome = "Cancelled"
OrderCancelRequested ==
    \E i \in 1..Len(olog) : olog[i].outcome = "Cancelled"

\* the body of the activity run is waiting for, when nothing fails in it
ActivityBody(w, act) ==
    LET code == booking[w].confirmation_code
    IN  CASE act = "store_booking_request" -> store_booking_request(db, booking[w])
          [] act = "book_flight" -> book_flight(db, flight_request(booking[w]))
          [] act = "book_hotel" -> book_hotel(db, hotel_request(booking[w]), FALSE)
          [] act = "book_car" -> book_car(db, car_request(booking[w]), FALSE)
          [] act = "accept_payment" -> accept_payment(db, code, FALSE)
          [] act \in Cancels -> cancel_activity(db, act, code)

\* the attempt under way is cancelled: the await raises at once, while the
\* body, which never heartbeats, may still run to its end (ran)
CancelledAttempt(w, act, r, ran) ==
    /\ ran => (r.ok /\ lost < MaxLost)
    /\ db' = IF ran THEN r.db ELSE db
    /\ lost' = IF ran THEN lost + 1 ELSE lost
    /\ log' = [log EXCEPT ![w] = Append(@,
                 [activity |-> act, attempt |-> attempt[w], outcome |-> "Cancelled",
                  result |-> None])]
    /\ applied' = [applied EXCEPT ![w][act] = IF ran THEN @ + 1 ELSE @]
    /\ held' = [held EXCEPT ![w] = IF ran THEN @ \cup r.took ELSE @]
    /\ last_failure' = [last_failure EXCEPT ![w] = "cancelled"]

\* handle.cancel() while run awaits an activity: the await raises an
\* ActivityError (cause CancelledError); in the try block `except
\* ActivityError` catches it, in the except block it leaves run
CancelBooking(w) ==
    /\ pc[w] \in Forward \cup Cancels
    /\ ~CancelRequested(w)
    /\ \E ran \in BOOLEAN :
         LET act == pc[w]
             first == FirstCompensation(car_result[w], hotel_result[w], flight_result[w])
         IN  /\ CancelledAttempt(w, act, ActivityBody(w, act), ran)
             /\ attempt' = [attempt EXCEPT ![w] = 1]
             /\ IF act \in Forward
                THEN /\ pc' = [pc EXCEPT ![w] = first]
                     /\ error' = [error EXCEPT ![w] = act]
                     /\ raised' = [raised EXCEPT ![w] = IF first = "failed" THEN act ELSE @]
                ELSE /\ pc' = [pc EXCEPT ![w] = "failed"]
                     /\ raised' = [raised EXCEPT ![w] = HandlerRaises(act, error[w])]
                     /\ UNCHANGED error
    /\ UNCHANGED <<booking, flight_result, hotel_result, car_result>>
    /\ UNCHANGED not_booking

\* handle.cancel() on the order: the child workflow being awaited is
\* cancelled and the await raises ChildWorkflowError, which `except
\* Exception` catches (the inner one around the notification included); a
\* cancellation activity awaited in the except block raises out of run
CancelOrder ==
    /\ opc \in OrderForward \cup OrderCancels
    /\ ~OrderCancelRequested
    /\ \E ran \in BOOLEAN :
         LET act == opc
             arg == IF act = "reserve_inventory_activity" THEN item
                    ELSE IF act = "cancel_inventory_activity"
                    THEN order_reservations[item] ELSE 0
         IN  /\ ran => lost < MaxLost
             /\ lost' = IF ran THEN lost + 1 ELSE lost
             /\ olog' = Append(olog, [activity |-> act, arg |-> arg,
                                      attempt |-> oattempt, outcome |-> "Cancelled"])
             /\ made' = IF ran /\ act = "reserve_inventory_activity"
                        THEN made \cup {Cardinality(made) + 1} ELSE made
             /\ released' = IF ran /\ act = "cancel_inventory_activity"
                            THEN released \cup {arg} ELSE released
             /\ IF act = "send_notification_activity"
                THEN /\ opc' = "completed"
                     /\ oattempt' = 1
                     /\ UNCHANGED <<item, oerror, oraised>>
                ELSE IF act \in OrderForward
                THEN OrderFails(act)
                ELSE /\ opc' = "failed"
                     /\ oattempt' = 1
                     /\ item' = 1
                     /\ oraised' = HandlerRaises(act, oerror)
                     /\ UNCHANGED oerror
    /\ UNCHANGED <<order, payment_id, order_reservations, shipping_id, reservation_ids>>
    /\ UNCHANGED not_order

\* the workflows under fair scheduling: the server keeps dispatching workflow
\* tasks and activity attempts to the workers as long as there are any
LiveSpec == Spec /\ WF_vars(Next)

CancelNext ==
    \/ Next
    \/ \E w \in Codes : CancelBooking(w)
    \/ CancelOrder

\* the workflows, with a client that may cancel the booking or the order
CancelSpec == Init /\ [][CancelNext]_vars

\* ---------------------------------------------------- concurrent bookings
\* Two bookings run on the same worker, whose activities all use the one
\* database returned by get_booking_database.  To keep the interleavings
\* finite in number the services inject at most MaxLost faults (a lost
\* completion); failures for lack of availability and the forced payment
\* failure are not injected by a service and stay unrestricted.
Injected(w) ==
    /\ log'[w] # log[w]
    /\ \/ last_failure'[w] \in {"service", "timeout"}
       \/ last_failure'[w] = "payment" /\ ~ForcePaymentFail(w)

FaultBudget == \A w \in Codes : Injected(w) => lost' > lost

ConcurrentInit ==
    /\ db = SeedDB
    /\ booking \in [Codes -> UNION {Requests(c) : c \in Codes}]
    /\ \A c \in Codes : booking[c] \in Requests(c)
    /\ pc = [c \in Codes |-> "pending"]
    /\ attempt = [c \in Codes |-> 1]
    /\ flight_result = [c \in Codes |-> None]
    /\ hotel_result = [c \in Codes |-> None]
    /\ car_result = [c \in Codes |-> None]
    /\ error = [c \in Codes |-> "none"]
    /\ raised = [c \in Codes |-> "none"]
    /\ log = [c \in Codes |-> << >>]
    /\ applied = [c \in Codes |-> [a \in Activities |-> 0]]
    /\ held = [c \in Codes |-> {}]
    /\ last_failure = [c \in Codes |-> ""]
    /\ lost = 0
    /\ OrderInit /\ OrderIdle
    /\ HotelInit /\ hpc = "idle"
    /\ CatalogInit /\ cpc = "idle"
    /\ ProcessingInit /\ porder = << >> /\ ppc = "idle"
    /\ EmailInit /\ epc = "idle"
    /\ DraftInit /\ dpc = "idle"
    /\ RetryInit /\ rpc = "idle"
    /\ KeyInit
    /\ ReservationInit /\ respc = "idle"
    /\ GuestInit /\ GuestIdle
    /\ InventoryInit
    /\ GameInit /\ gamepc = "idle"

ConcurrentNext ==
    \/ \E w \in Codes : StartBooking(w)
    \/ \E w \in Codes : RunStoreBookingRequest(w) /\ FaultBudget
    \/ \E w \in Codes : RunBookFlight(w) /\ FaultBudget
    \/ \E w \in Codes : RunBookHotel(w) /\ FaultBudget
    \/ \E w \in Codes : RunBookCar(w) /\ FaultBudget
    \/ \E w \in Codes : RunAcceptPayment(w) /\ FaultBudget
    \/ \E w \in Codes : RunCompensation(w) /\ FaultBudget

ConcurrentSpec == ConcurrentInit /\ [][ConcurrentNext]_vars

\* ------------------------------------------------------ derived notions
\* execution status of a workflow: run returned, raised, or is under way
Status(w) ==
    IF pc[w] \in {"idle", "pending"} THEN "Pending"
    ELSE IF pc[w] = "completed" THEN "Completed"
    ELSE IF pc[w] = "failed" THEN "Failed"
    ELSE "Running"

OrderStatus ==
    IF opc \in {"idle", "pending"} THEN "Pending"
    ELSE IF opc = "completed" THEN "Completed"
    ELSE IF opc = "failed" THEN "Failed"
    ELSE "Running"

\* sync_catalog and OrderProcessingWorkflow.run return from their except
\* blocks, so their executions complete whatever happened
CatalogStatus ==
    IF cpc \in {"idle", "pending"} THEN "Pending"
    ELSE IF cpc = "done" THEN "Completed"
    ELSE "Running"

ProcessingStatus ==
    IF ppc \in {"idle", "pending"} THEN "Pending"
    ELSE IF ppc = "done" THEN "Completed"
    ELSE "Running"

\* a workflow task that fails is retried: the execution stays Running
VerificationStatus ==
    IF epc \in {"idle", "pending"} THEN "Pending"
    ELSE IF epc = "returned" THEN "Completed"
    ELSE "Running"

\* the activity failed for good: its last permitted attempt failed
TerminalFailure(l, act) ==
    \E i \in 1..Len(l) : /\ l[i].activity = act
                         /\ l[i].attempt = maximum_attempts
                         /\ l[i].outcome = "Failure"

Succeeded(l, act) ==
    \E i \in 1..Len(l) : l[i].activity = act /\ l[i].outcome = "Success"

\* the cancellations run invoked (one execute_activity call each), in order
CompCalls(w) ==
    LET calls == SelectSeq(log[w], LAMBDA e : e.activity \in Cancels /\ e.attempt = 1)
    IN  [i \in 1..Len(calls) |-> calls[i].activity]

OrderCompCalls ==
    LET calls == SelectSeq(olog, LAMBDA e : e.activity \in OrderCancels /\ e.attempt = 1)
    IN  [i \in 1..Len(calls) |-> <<calls[i].activity, calls[i].arg>>]

StepOf(act) ==
    CASE act = "store_booking_request" -> 0
      [] act = "book_flight" -> 1
      [] act = "book_hotel" -> 2
      [] act = "book_car" -> 3
      [] act = "accept_payment" -> 4

CancelOf(step) ==
    CASE step = 1 -> "cancel_flight"
      [] step = 2 -> "cancel_hotel"
      [] step = 3 -> "cancel_car"

ForwardOf(cancel) ==
    CASE cancel = "cancel_flight" -> "book_flight"
      [] cancel = "cancel_hotel" -> "book_hotel"
      [] cancel = "cancel_car" -> "book_car"
      [] cancel = "cancel_payment_activity" -> "process_payment_activity"
      [] cancel = "cancel_inventory_activity" -> "reserve_inventory_activity"
      [] cancel = "cancel_shipping_activity" -> "arrange_shipping_activity"

\* cancellations of the steps k-1 .. 0 that have one, highest step first
ExpectedCancels(k) ==
    LET n == IF k - 1 > 3 THEN 3 ELSE IF k < 1 THEN 0 ELSE k - 1
    IN  [i \in 1..n |-> CancelOf(n + 1 - i)]

OrderStepOf(act) ==
    CASE act = "process_payment_activity" -> 0
      [] act = "reserve_inventory_activity" -> 1
      [] act = "arrange_shipping_activity" -> 2
      [] act = "send_notification_activity" -> 3

OrderExpectedCancels(k) ==
    (IF k > 2 THEN << <<"cancel_shipping_activity", 0>> >> ELSE << >>)
    \o (IF k > 1 THEN [i \in 1..Len(order_reservations) |->
                          <<"cancel_inventory_activity", order_reservations[i]>>]
        ELSE << >>)
    \o (IF k > 0 THEN << <<"cancel_payment_activity", 0>> >> ELSE << >>)

Ended(w) == pc[w] \in {"completed", "failed"}
OrderEnded == opc \in {"completed", "failed"}
NoCancelFailed(w) == \A c \in Cancels : ~TerminalFailure(log[w], c)
OrderNoCancelFailed == \A c \in OrderCancels : ~TerminalFailure(olog, c)

\* ------------------------------------------------------------------ C1
C1Booking ==
    \A w \in Codes : \A act \in Forward :
        (Ended(w) /\ TerminalFailure(log[w], act) /\ NoCancelFailed(w))
            => CompCalls(w) = ExpectedCancels(StepOf(act))

C1Order(steps) ==
    \A act \in steps :
        (OrderEnded /\ TerminalFailure(olog, act) /\ OrderNoCancelFailed)
            => OrderCompCalls = OrderExpectedCancels(OrderStepOf(act))

C2_CompensateOnlySucceeded ==
    /\ \A w \in Codes : \A i \in 1..Len(log[w]) :
          log[w][i].activity \in Cancels =>
              \E j \in 1..(i - 1) :
                  /\ log[w][j].activity = ForwardOf(log[w][i].activity)
                  /\ log[w][j].outcome = "Success"
    /\ \A i \in 1..Len(olog) :
          olog[i].activity \in OrderCancels =>
              \E j \in 1..(i - 1) :
                  /\ olog[j].activity = ForwardOf(olog[i].activity)
                  /\ olog[j].outcome = "Success"
                  /\ olog[i].activity = "cancel_inventory_activity"
                        => olog[j].arg = Len(order.items)

C2_Witness ==
    /\ \E i \in 1..Len(olog) : olog[i].activity = "cancel_inventory_activity"
    /\ opc = "failed"

\* ------------------------------------------------------------------ C3
\* C3: after a BookingWorkflow run that failed and whose cancellations all
\* succeeded, the database holds no reservation for the confirmation code and
\* every seat and room or car date the run took is available again.
SeatFree(d, flight_number, date, seat_number) ==
    \A i \in 1..Len(d.flight_instances) :
        (d.flight_instances[i].flight_number = flight_number
         /\ d.flight_instances[i].date = date) =>
            \A k \in 1..Len(d.flight_instances[i].seats) :
                d.flight_instances[i].seats[k].seat_number = seat_number
                    => d.flight_instances[i].seats[k].is_available

RoomFree(d, hotel_name, date, room_number) ==
    \A i \in 1..Len(d.hotels) :
        d.hotels[i].hotel_name = hotel_name =>
            \A k \in 1..Len(d.hotels[i].rooms) :
                d.hotels[i].rooms[k].room_number = room_number
                    => date \notin d.hotels[i].rooms[k].unavailable_dates

CarFree(d, date, license_plate) ==
    \A i \in 1..Len(d.cars) :
        d.cars[i].license_plate = license_plate
            => date \notin d.cars[i].unavailable_dates

Released(d, res) ==
    CASE res[1] = "seat" -> SeatFree(d, res[2], res[3], res[4])
      [] res[1] = "room" -> RoomFree(d, res[2], res[3], res[4])
      [] res[1] = "car"  -> CarFree(d, res[3], res[4])

RolledBack(w) ==
    /\ db.flight_reservations[w] = None
    /\ db.hotel_reservations[w] = None
    /\ db.car_reservations[w] = None
    /\ \A res \in held[w] : Released(db, res)

C3_ConsistentAfterRollback ==
    \A w \in Codes :
        (pc[w] = "failed" /\ NoCancelFailed(w)) => RolledBack(w)

\* ------------------------------------------------------------------ C4
AllForwardSucceeded(w) == \A act \in Forward : Succeeded(log[w], act)
OrderAllForwardSucceeded ==
    /\ \A act \in OrderForward \ {"reserve_inventory_activity"} : Succeeded(olog, act)
    /\ \A n \in 1..Len(order.items) :
          \E i \in 1..Len(olog) : /\ olog[i].activity = "reserve_inventory_activity"
                                  /\ olog[i].arg = n
                                  /\ olog[i].outcome = "Success"

\* C4: a run in which every forward action succeeded within its retry policy
\* ends Completed, has invoked no compensation, and has executed each forward
\* action successfully exactly once (no duplicate side effect across retries).
C4_CompletedExactlyOnce ==
    /\ \A w \in Codes :
          (Ended(w) /\ AllForwardSucceeded(w)) =>
              /\ Status(w) = "Completed"
              /\ CompCalls(w) = << >>
              /\ \A act \in Forward : applied[w][act] = 1
    /\ (OrderEnded /\ order # None /\ OrderAllForwardSucceeded) =>
              /\ OrderStatus = "Completed"
              /\ OrderCompCalls = << >>
              /\ Cardinality(made) = Len(order.items)

\* ------------------------------------------------------------------ C5
\* C5: once a cancellation has failed on its last permitted attempt, the run
\* has ended with status Failed (neither completed nor rolled back), and the
\* error it ended with is that of the cancellation that could not be completed.
C5_CompensationExhausted ==
    /\ \A w \in Codes : \A c \in Cancels :
          TerminalFailure(log[w], c) =>
              (Status(w) = "Failed" /\ raised[w] = c /\ raised[w] # error[w])
    /\ \A c \in OrderCancels :
          TerminalFailure(olog, c) =>
              (OrderStatus = "Failed" /\ oraised = c /\ oraised # oerror)

C5_Witness ==
    \E w \in Codes :
        /\ TerminalFailure(log[w], "cancel_hotel")
        /\ Succeeded(log[w], "cancel_car")
        /\ db.hotel_reservations[w] # None
        /\ pc[w] = "failed"

\* ------------------------------------------------------------------ C6
\* C6 as stated: a run whose forward step failed for good and whose
\* compensations all succeeded ends with a status Compensated that is neither
\* Completed nor Failed.
C6_AsStated ==
    /\ \A w \in Codes :
          (Ended(w) /\ (\E act \in Forward : TerminalFailure(log[w], act))
             /\ NoCancelFailed(w)) => Status(w) = "Compensated"
    /\ (OrderEnded /\ (\E act \in OrderForward : TerminalFailure(olog, act))
             /\ OrderNoCancelFailed) => OrderStatus = "Compensated"

\* C6 amended: such a run has cancelled every step that had succeeded and then
\* re-raises the forward step's error, so it ends with status Failed, the status
\* a failed cancellation gives too; only the error it ends with (the forward
\* step's) tells the two apart.  With book_hotel failing only cancel_flight
\* runs.  (The order saga's notification step aside: its failure is swallowed
\* and the run ends Completed.)
C6_RolledBackEndsFailed ==
    /\ \A w \in Codes :
          (Ended(w) /\ (\E act \in Forward : TerminalFailure(log[w], act))
             /\ NoCancelFailed(w)) =>
              /\ Status(w) = "Failed"
              /\ raised[w] = error[w]
              /\ TerminalFailure(log[w], raised[w])
              /\ \A c \in Cancels :
                    Succeeded(log[w], ForwardOf(c)) => Succeeded(log[w], c)
              /\ raised[w] = "book_hotel" => CompCalls(w) = <<"cancel_flight">>
    /\ (OrderEnded /\ OrderNoCancelFailed
          /\ \E act \in OrderForward \ {"send_notification_activity"} :
                TerminalFailure(olog, act)) =>
              /\ OrderStatus = "Failed"
              /\ oraised = oerror
              /\ TerminalFailure(olog, oraised)
              /\ Succeeded(olog, "process_payment_activity")
                    => Succeeded(olog, "cancel_payment_activity")
              /\ \A i \in 1..Len(order_reservations) :
                    \E j \in 1..Len(olog) :
                        /\ olog[j].activity = "cancel_inventory_activity"
                        /\ olog[j].arg = order_reservations[i]
                        /\ olog[j].outcome = "Success"
    /\ (OrderEnded /\ TerminalFailure(olog, "send_notification_activity"))
          => OrderStatus = "Completed"

C6_Witness ==
    \E w \in Codes :
        /\ pc[w] = "failed"
        /\ raised[w] = "book_hotel"
        /\ Succeeded(log[w], "cancel_flight")
        /\ NoCancelFailed(w)

\* ------------------------------------------------------------------ C7
NextStep(act) ==
    CASE act = "store_booking_request" -> "book_flight"
      [] act = "book_flight" -> "book_hotel"
      [] act = "book_hotel" -> "book_car"
      [] act = "book_car" -> "accept_payment"
      [] act = "accept_payment" -> "completed"

C7Booking(w) ==
    \A i \in 1..Len(log[w]) :
        LET e == log[w][i]
            last == i = Len(log[w])
            \* the activity and attempt that come after entry i
            after == IF last THEN <<pc[w], attempt[w]>>
                     ELSE <<log[w][i + 1].activity, log[w][i + 1].attempt>>
        IN  e.activity \in Forward =>
              /\ e.attempt \in 1..maximum_attempts
              /\ (e.outcome = "Failure" /\ e.attempt < maximum_attempts)
                    => after = <<e.activity, e.attempt + 1>>
              /\ e.outcome = "Success" => after = <<NextStep(e.activity), 1>>
              /\ (e.outcome = "Failure" /\ after[1] # e.activity)
                    => e.attempt = maximum_attempts

C7Order ==
    \A i \in 1..Len(olog) :
        LET e == olog[i]
            last == i = Len(olog)
            after == IF last THEN <<opc, item, oattempt>>
                     ELSE <<olog[i + 1].activity, olog[i + 1].arg, olog[i + 1].attempt>>
            same == after[1] = e.activity
                    /\ (e.activity = "reserve_inventory_activity" => after[2] = e.arg)
        IN  e.activity \in OrderForward =>
              /\ e.attempt \in 1..maximum_attempts
              /\ (e.outcome = "Failure" /\ e.attempt < maximum_attempts)
                    => (same /\ after[3] = e.attempt + 1)
              /\ e.outcome = "Success" => (~same /\ after[3] = 1
                                           /\ after[1] \notin OrderCancels \cup {"failed"})
              /\ (e.outcome = "Failure" /\ ~same) => e.attempt = maximum_attempts

C7Hotel ==
    /\ Len(hlog) <= PaymentRetries
    /\ \A i \in 1..Len(hlog) :
          /\ (hlog[i] = "Failure" /\ i < PaymentRetries /\ i = Len(hlog))
                => (hpc = "payment" /\ hattempt = i)
          /\ hlog[i] = "Success" => (i = Len(hlog) /\ hpc = "assign_room")
    /\ hpc = "raised" => (Len(hlog) = PaymentRetries
                          /\ \A i \in 1..Len(hlog) : hlog[i] = "Failure")

\* C7: a forward activity is attempted at most maximum_attempts (3) times; a
\* failed attempt n < 3 is followed by attempt n + 1 of the same activity, a
\* Success is followed by the next step, and a step is given up only when
\* attempt 3 failed.  The same holds of the payment loop of process_reservation.
C7_BoundedRetry ==
    /\ \A w \in Codes : C7Booking(w)
    /\ C7Order
    /\ C7Hotel

C7_Witness ==
    \E w \in Codes : \E i \in 1..Len(log[w]) :
        /\ i + 2 <= Len(log[w])
        /\ \A k \in 0..2 : log[w][i + k].activity = "book_hotel"
        /\ log[w][i].outcome = "Failure"
        /\ log[w][i + 1].outcome = "Failure"
        /\ log[w][i + 2].outcome = "Success"
        /\ pc[w] = "book_car"

\* ------------------------------------------------------------------ C8
\* C8: a forward failure that is permanent (no flight, room or car of the
\* requested kind is available) is never retried: once an attempt has failed
\* that way the run is no longer at a forward step.
C8_PermanentNotRetried ==
    \A w \in Codes : last_failure[w] = "no_availability" => pc[w] \notin Forward

\* ------------------------------------------------------------------ C9
\* C9: when the body of book_flight, book_hotel or book_car runs again for an
\* instance for which it has already run to completion, the database is left
\* as it was.
C9_ForwardIdempotent ==
    [][\A w \in Codes : \A act \in {"book_flight", "book_hotel", "book_car"} :
          (applied[w][act] >= 1 /\ applied'[w][act] = applied[w][act] + 1)
              => db' = db]_vars

\* ----------------------------------------------------------------- C10
\* C10: when the inventory step has failed for good after some items were
\* reserved, cancel_inventory_activity has been invoked for every reservation
\* made by the time the run ends.
C10_PartialFanOutCompensated ==
    (OrderEnded /\ TerminalFailure(olog, "reserve_inventory_activity")) =>
        \A i \in 1..Len(reservation_ids) :
            \E j \in 1..Len(olog) :
                /\ olog[j].activity = "cancel_inventory_activity"
                /\ olog[j].arg = reservation_ids[i]

\* ------------------------------------------------------------------- C11
\* some activity of the step has been scheduled / has failed for good
StepInvoked(step) ==
    \E b \in DOMAIN cbranch[step] : cbranch[step][b].state # "unscheduled"
StepFailed(step) ==
    \E b \in DOMAIN cbranch[step] : cbranch[step][b].state = "failed"
StepSucceeded(step) ==
    \A b \in DOMAIN cbranch[step] : cbranch[step][b].state = "ok"

\* the activities of the order saga invoked after reserve_inventory_activity
AfterInventory == {"arrange_shipping_activity", "send_notification_activity"}

\* the items whose reservation succeeded, as the attempts recorded them
ReservedItems ==
    {olog[i].arg : i \in {j \in 1..Len(olog) :
                            /\ olog[j].activity = "reserve_inventory_activity"
                            /\ olog[j].outcome = "Success"}}

\* C11: a step that fans out (the suppliers, pricing engines and thumbnails
\* of the catalog sync; the items of the inventory reservation) succeeds only
\* if every branch succeeded, and once a branch has failed for good the step
\* fails as a whole and no later step's forward action is invoked.
C11_FanOutAllOrNothing ==
    /\ \A i \in 1..Len(CatalogSteps) :
         LET step == CatalogSteps[i]
         IN  /\ StepFailed(step) =>
                  /\ cpc = "done" /\ cresult = "failure"
                  /\ \A j \in (i + 1)..Len(CatalogSteps) : ~StepInvoked(CatalogSteps[j])
             /\ (\E j \in (i + 1)..Len(CatalogSteps) : StepInvoked(CatalogSteps[j]))
                  => StepSucceeded(step)
    /\ cresult = "success" => \A i \in 1..Len(CatalogSteps) : StepSucceeded(CatalogSteps[i])
    /\ TerminalFailure(olog, "reserve_inventory_activity") =>
         /\ \A i \in 1..Len(olog) : olog[i].activity \notin AfterInventory
         /\ opc \notin OrderForward
         /\ OrderStatus # "Completed"
    /\ (\E i \in 1..Len(olog) : olog[i].activity \in AfterInventory) =>
         ReservedItems = 1..Len(order.items)

\* a pricing engine failed for good while another engine had succeeded; an
\* item failed for good after an earlier item of the order was reserved
C11_Witness ==
    /\ StepFailed("calculate_prices")
    /\ \E b \in DOMAIN cbranch["calculate_prices"] :
         cbranch["calculate_prices"][b].state = "ok"
    /\ cpc = "done"

C11_WitnessOrder ==
    /\ TerminalFailure(olog, "reserve_inventory_activity")
    /\ ReservedItems # {}
    /\ OrderEnded

\* ------------------------------------------------------------------- C12
\* C12: no step failure is silently ignored: a forward step that has failed
\* for good takes its workflow into the compensation handler (the except
\* block), and a workflow one of whose steps failed for good never ends
\* Completed or reports success.
C12_NoSilentFailure ==
    /\ \A w \in Codes : \A a \in Forward :
         TerminalFailure(log[w], a) =>
           /\ error[w] # "none"
           /\ Status(w) # "Completed"
    /\ \A a \in OrderForward :
         TerminalFailure(olog, a) =>
           /\ oerror # "none"
           /\ OrderStatus # "Completed"
    /\ pfailed # "none" => (ProcessingStatus # "Completed" /\ presult # "True")
    /\ efailed # "none" => (VerificationStatus # "Completed" /\ eresult # "True")

\* ------------------------------------------------------------------- C13
\* the run was cancelled while it awaited a forward activity, after a forward
\* step that has a cancellation had succeeded
CancelledInFlight(w) ==
    \E i \in 1..Len(log[w]) :
        /\ log[w][i].outcome = "Cancelled"
        /\ log[w][i].activity \in Forward
        /\ \E j \in 1..(i - 1) :
             /\ log[w][j].outcome = "Success"
             /\ log[w][j].activity \in {ForwardOf(c) : c \in Cancels}

OrderCancelledInFlight ==
    \E i \in 1..Len(olog) :
        /\ olog[i].outcome = "Cancelled"
        /\ olog[i].activity \in OrderForward
        /\ \E j \in 1..(i - 1) : olog[j].outcome = "Success"

\* every booking step that succeeded has had its cancellation succeed
C13Compensated(w) ==
    \A c \in Cancels : Succeeded(log[w], ForwardOf(c)) => Succeeded(log[w], c)

C13Booking ==
    \A w \in Codes :
        (Ended(w) /\ CancelledInFlight(w) /\ NoCancelFailed(w)) =>
            /\ pc[w] = "failed"
            /\ C13Compensated(w)
            /\ RolledBack(w)

C13Order ==
    (OrderEnded /\ OrderCancelledInFlight /\ OrderNoCancelFailed) =>
        /\ opc = "failed"
        /\ Succeeded(olog, "process_payment_activity")
             => Succeeded(olog, "cancel_payment_activity")
        /\ made \subseteq released

\* C13: cancelling a saga in flight after a forward step has succeeded forces
\* it into compensation: when it has terminated every step that had succeeded
\* is compensated and none of its side effects is still applied.
C13_CancelForcesCompensation == C13Booking /\ C13Order

\* ------------------------------------------------------------------- C14
\* C14: under fair scheduling every started saga instance eventually reaches
\* a terminal status (its run returns or raises), whatever its activities
\* do: all retry loops, forward and compensating, are bounded.
SagaStarted == (\E w \in Codes : pc[w] = "pending") \/ opc = "pending"
SagasEnded ==
    /\ \A w \in Codes : pc[w] # "idle" => Ended(w)
    /\ opc # "idle" => OrderEnded
C14_EventuallyTerminal == SagaStarted ~> SagasEnded

\* a run that went through retries and compensation has ended
C14_Witness ==
    \E w \in Codes :
        /\ Ended(w)
        /\ \E i \in 1..Len(log[w]) : log[w][i].attempt = maximum_attempts
        /\ \E c \in Cancels : Succeeded(log[w], c)

\* ------------------------------------------------------------------- C15
\* the saga status of the specification, read off the position of run: in
\* the try block (Running), in the except block (Compensating), returned
\* (Completed), raised after every cancellation it invoked succeeded
\* (Compensated) or after one failed for good (Failed)
Phase(w) ==
    IF pc[w] \in {"idle", "pending"} THEN "Pending"
    ELSE IF pc[w] = "completed" THEN "Completed"
    ELSE IF pc[w] = "failed"
         THEN IF NoCancelFailed(w) THEN "Compensated" ELSE "Failed"
    ELSE IF pc[w] \in Cancels THEN "Compensating"
    ELSE "Running"

OrderPhase ==
    IF opc \in {"idle", "pending"} THEN "Pending"
    ELSE IF opc = "completed" THEN "Completed"
    ELSE IF opc = "failed"
         THEN IF OrderNoCancelFailed THEN "Compensated" ELSE "Failed"
    ELSE IF opc \in OrderCancels THEN "Compensating"
    ELSE "Running"

TerminalPhases == {"Completed", "Compensated", "Failed"}

\* from -> to is a transition of the status diagram (or no transition);
\* empty: the except block found nothing to cancel, so the run passed
\* through it and raised within the step that caught the error
PhaseStep(from, to, empty) ==
    \/ from = to
    \/ from = "Pending" /\ to = "Running"
    \/ from = "Running" /\ to \in {"Completed", "Compensating"}
    \/ from = "Running" /\ to = "Compensated" /\ empty
    \/ from = "Compensating" /\ to \in {"Compensated", "Failed"}

\* the log entries a step appended name cancellations only
OnlyCancelsAdded(before, after, cancels) ==
    \A i \in (Len(before) + 1)..Len(after) : after[i].activity \in cancels

C15Booking(w) ==
    /\ PhaseStep(Phase(w), Phase(w)', CompCalls(w)' = << >>)
    /\ Phase(w) \in {"Compensating"} \cup TerminalPhases
         => OnlyCancelsAdded(log[w], log'[w], Cancels)
    /\ Phase(w) \in TerminalPhases => pc'[w] = pc[w] /\ log'[w] = log[w]

C15Order ==
    /\ PhaseStep(OrderPhase, OrderPhase', OrderCompCalls' = << >>)
    /\ OrderPhase \in {"Compensating"} \cup TerminalPhases
         => OnlyCancelsAdded(olog, olog', OrderCancels)
    /\ OrderPhase \in TerminalPhases => opc' = opc /\ olog' = olog

C15_WitnessOrder ==
    /\ OrderPhase = "Failed"
    /\ Len(OrderCompCalls) >= 1

\* ------------------------------------------------------------------- C16
\* the forward step act of a booking completed with Success within history l
StepDone(l, act) == Succeeded(l, act)

\* the same for an order: its inventory step is done when every item of the
\* order has been reserved
OrderStepDone(l, act) ==
    IF act = "reserve_inventory_activity"
    THEN \A it \in 1..Len(order.items) :
            \E i \in 1..Len(l) : /\ l[i].activity = act
                                 /\ l[i].arg = it
                                 /\ l[i].outcome = "Success"
    ELSE Succeeded(l, act)

C16Booking(w) ==
    \A j \in 1..Len(log[w]) :
        log[w][j].activity \in Forward =>
            /\ \A act \in Forward :
                  StepOf(act) + 1 = StepOf(log[w][j].activity)
                      => StepDone(SubSeq(log[w], 1, j - 1), act)
            /\ \A i \in 1..(j - 1) :
                  log[w][i].activity \in Forward
                      => StepOf(log[w][i].activity) <= StepOf(log[w][j].activity)

C16Order ==
    \A j \in 1..Len(olog) :
        olog[j].activity \in OrderForward =>
            /\ \A act \in OrderForward :
                  OrderStepOf(act) + 1 = OrderStepOf(olog[j].activity)
                      => OrderStepDone(SubSeq(olog, 1, j - 1), act)
            /\ \A i \in 1..(j - 1) :
                  olog[i].activity \in OrderForward
                      => OrderStepOf(olog[i].activity) <= OrderStepOf(olog[j].activity)

\* C16: within one saga the forward steps run strictly one after the other:
\* every attempt of step i+1 comes after step i completed with Success, and
\* the attempts of different forward steps never interleave.
C16_ForwardSequential == (\A w \in Codes : C16Booking(w)) /\ C16Order

\* a booking that reached its last forward step after retrying an earlier one
C16_Witness ==
    \E w \in Codes :
        /\ \E j \in 1..Len(log[w]) : log[w][j].activity = "accept_payment"
        /\ \E j \in 1..Len(log[w]) : /\ log[w][j].activity \in Forward
                                     /\ log[w][j].outcome = "Failure"

C16_WitnessOrder ==
    /\ opc = "completed"
    /\ Len(order.items) = MaxItems
    /\ \E j \in 1..Len(olog) : olog[j].activity = "send_notification_activity"

\* ------------------------------------------------------------------- C17
\* what run does with request b when it is the only instance and no service
\* injects a fault: the position at which it ends
SoloEnd(b) ==
    IF \E stored \in {store_booking_request(SeedDB, b)} :
       \E flight \in {book_flight(stored.db, flight_request(b))} :
       \E hotel \in {book_hotel(flight.db, hotel_request(b), FALSE)} :
       \E car \in {book_car(hotel.db, car_request(b), FALSE)} :
       \E payment \in {accept_payment(car.db, b.confirmation_code, FALSE)} :
           flight.ok /\ hotel.ok /\ car.ok /\ payment.ok
    THEN "completed" ELSE "failed"

\* C17 as stated: the final status of an instance is the same whether or not
\* another instance runs concurrently: it ends as it ends alone.
C17_AsStated ==
    \A w \in Codes : (Ended(w) /\ lost = 0) => pc[w] = SoloEnd(booking[w])

\* what belongs to instance v: its workflow variables, its history and its
\* records in the database
Own(v) ==
    <<pc[v], attempt[v], flight_result[v], hotel_result[v], car_result[v],
      error[v], raised[v], log[v], applied[v], held[v], last_failure[v],
      db.booking_requests[v], db.flight_reservations[v],
      db.hotel_reservations[v], db.car_reservations[v]>>

\* the kind of resource a booking activity asks for
Asks(act) ==
    CASE act = "book_flight" -> "seat"
      [] act = "book_hotel" -> "room"
      [] act = "book_car" -> "car"
      [] OTHER -> "none"

\* w ends otherwise than alone
EndsOtherwise(w) ==
    /\ Ended(w)' /\ lost' = 0
    /\ pc'[w] # SoloEnd(booking[w])

\* C17 amended: distinct saga instances share the booking database and
\* nothing else: a step of one instance changes no workflow variable, history
\* entry, booking request or reservation of another, and an instance ends
\* otherwise than it would alone only by failing a booking activity when
\* another instance has taken a seat, room or car of the kind it asked for.
C17_IndependentButInventory ==
    [][/\ booking' = booking
       /\ \A w \in Codes : log'[w] # log[w] =>
             \A v \in Codes \ {w} : Own(v)' = Own(v)
       /\ \A w \in Codes : EndsOtherwise(w) =>
             /\ pc'[w] = "failed"
             /\ \E v \in Codes \ {w} : \E res \in held'[v] :
                   res[1] = Asks(error'[w])]_vars

\* both instances hold a flight reservation, and one of them has ended
\* failed for a room the other had taken
C17_Witness ==
    \E w \in Codes : \E v \in Codes \ {w} :
        /\ lost = 0
        /\ pc[w] = "failed" /\ SoloEnd(booking[w]) = "completed"
        /\ error[w] = "book_hotel"
        /\ \E res \in held[v] : res[1] = "room"
        /\ Succeeded(log[w], "book_flight") /\ Succeeded(log[v], "book_flight")

\* ------------------------------------------------------------------- C19
\* The worker process holding the run of booking w is terminated between two
\* activity attempts (at a step boundary or during a retry wait) and started
\* again.  What the terminated process held in memory is gone; the service
\* records the workflow task it lost in the history, and the new process
\* rebuilds the run by executing run again over the recorded history.
Restarted == [activity |-> "workflow_task", attempt |-> 0,
              outcome |-> "TimedOut", result |-> None]

Restarts(l) == Len(SelectSeq(l, LAMBDA e : e = Restarted))

\* the local state of run at its first await
FirstAwait ==
    [pc |-> "store_booking_request", attempt |-> 1,
     flight_result |-> None, hotel_result |-> None, car_result |-> None,
     error |-> "none", raised |-> "none"]

\* run, waiting at st.pc, is handed the recorded outcome e of that attempt
Feed(st, e) ==
    IF e = Restarted THEN st
    ELSE IF e.activity \in Cancels
    THEN IF e.outcome = "Success"
         THEN LET next == NextCompensation(e.activity, st.hotel_result,
                                           st.flight_result)
              IN  [st EXCEPT !.pc = next, !.attempt = 1,
                             !.raised = IF next = "failed" THEN st.error ELSE @]
         ELSE IF should_retry(st.attempt)
         THEN [st EXCEPT !.attempt = @ + 1]
         ELSE [st EXCEPT !.pc = "failed", !.attempt = 1,
                         !.raised = HandlerRaises(e.activity, st.error)]
    ELSE IF e.outcome = "Success"
    THEN [st EXCEPT !.pc = NextStep(e.activity), !.attempt = 1,
                    !.flight_result = IF e.activity = "book_flight"
                                      THEN e.result ELSE @,
                    !.hotel_result = IF e.activity = "book_hotel"
                                     THEN e.result ELSE @,
                    !.car_result = IF e.activity = "book_car"
                                   THEN e.result ELSE @]
    ELSE IF should_retry(st.attempt)
    THEN [st EXCEPT !.attempt = @ + 1]
    ELSE LET first == FirstCompensation(st.car_result, st.hotel_result,
                                        st.flight_result)
         IN  [st EXCEPT !.pc = first, !.attempt = 1, !.error = e.activity,
                        !.raised = IF first = "failed" THEN e.activity ELSE @]

RECURSIVE ReplayFrom(_, _, _)
ReplayFrom(l, i, st) ==
    IF i > Len(l) THEN st ELSE ReplayFrom(l, i + 1, Feed(st, l[i]))

\* run executed again from its top over the recorded history l
Replay(l) == ReplayFrom(l, 1, FirstAwait)

\* what the worker holds in memory for booking w
Memory(w) ==
    [pc |-> pc[w], attempt |-> attempt[w],
     flight_result |-> flight_result[w], hotel_result |-> hotel_result[w],
     car_result |-> car_result[w],
     error |-> error[w], raised |-> raised[w]]

Crash(w) ==
    /\ pc[w] \in Activities
    /\ Restarts(log[w]) < MaxRestarts
    /\ pc' = [pc EXCEPT ![w] = "crashed"]
    /\ attempt' = [attempt EXCEPT ![w] = 1]
    /\ flight_result' = [flight_result EXCEPT ![w] = None]
    /\ hotel_result' = [hotel_result EXCEPT ![w] = None]
    /\ car_result' = [car_result EXCEPT ![w] = None]
    /\ error' = [error EXCEPT ![w] = "none"]
    /\ raised' = [raised EXCEPT ![w] = "none"]
    /\ log' = [log EXCEPT ![w] = Append(@, Restarted)]
    /\ UNCHANGED <<db, booking, applied, held, last_failure, lost>>
    /\ UNCHANGED not_booking

Resume(w) ==
    /\ pc[w] = "crashed"
    /\ \E st \in {Replay(log[w])} :
         /\ pc' = [pc EXCEPT ![w] = st.pc]
         /\ attempt' = [attempt EXCEPT ![w] = st.attempt]
         /\ flight_result' = [flight_result EXCEPT ![w] = st.flight_result]
         /\ hotel_result' = [hotel_result EXCEPT ![w] = st.hotel_result]
         /\ car_result' = [car_result EXCEPT ![w] = st.car_result]
         /\ error' = [error EXCEPT ![w] = st.error]
         /\ raised' = [raised EXCEPT ![w] = st.raised]
    /\ UNCHANGED <<db, booking, log, applied, held, last_failure, lost>>
    /\ UNCHANGED not_booking

RestartInit == Init /\ \E w \in Codes : pc[w] = "pending"

RestartNext ==
    \/ \E w \in Codes : StartBooking(w)
    \/ \E w \in Codes : RunStoreBookingRequest(w) /\ FaultBudget
    \/ \E w \in Codes : RunBookFlight(w) /\ FaultBudget
    \/ \E w \in Codes : RunBookHotel(w) /\ FaultBudget
    \/ \E w \in Codes : RunBookCar(w) /\ FaultBudget
    \/ \E w \in Codes : RunAcceptPayment(w) /\ FaultBudget
    \/ \E w \in Codes : RunCompensation(w) /\ FaultBudget
    \/ \E w \in Codes : Crash(w)
    \/ \E w \in Codes : Resume(w)

\* a booking whose worker may be terminated and restarted
RestartSpec == RestartInit /\ [][RestartNext]_vars

OrderControl(e) ==
    LET act == e.activity
        first == OrderFirstCompensation(shipping_id, order_reservations, payment_id)
        next == OrderNextCompensation(act, item, order_reservations, payment_id)
    IN  IF e.outcome # "Success" /\ should_retry(oattempt)
        THEN [pc |-> opc, attempt |-> oattempt + 1, item |-> item]
        ELSE IF act \in OrderCancels
        THEN IF e.outcome = "Success"
             THEN [pc |-> next, attempt |-> 1,
                   item |-> IF act = "cancel_inventory_activity" /\ next = act
                            THEN item + 1 ELSE 1]
             ELSE [pc |-> "failed", attempt |-> 1, item |-> 1]
        ELSE IF act = "send_notification_activity"
        THEN [pc |-> "completed", attempt |-> 1, item |-> item]
        ELSE IF e.outcome # "Success"
        THEN [pc |-> first, attempt |-> 1, item |-> 1]
        ELSE IF act = "process_payment_activity"
        THEN [pc |-> IF Len(order.items) = 0 THEN "arrange_shipping_activity"
                     ELSE "reserve_inventory_activity",
              attempt |-> 1, item |-> 1]
        ELSE IF act = "reserve_inventory_activity"
        THEN IF item < Len(order.items)
             THEN [pc |-> act, attempt |-> 1, item |-> item + 1]
             ELSE [pc |-> "arrange_shipping_activity", attempt |-> 1, item |-> 1]
        ELSE [pc |-> "send_notification_activity", attempt |-> 1, item |-> item]

Last(l) == l[Len(l)]

C21Booking(w) ==
    IF log'[w] = log[w]
    THEN Memory(w)' = Memory(w)
         \/ (pc[w] = "pending" /\ Memory(w)' = FirstAwait)
    ELSE /\ Len(log'[w]) = Len(log[w]) + 1
         /\ Memory(w)' = Feed(Memory(w), Last(log'[w]))

C21Order ==
    IF olog' = olog
    THEN <<opc', oattempt', item'>> = <<opc, oattempt, item>>
         \/ (opc = "pending" /\ opc' = "process_payment_activity")
    ELSE /\ Len(olog') = Len(olog) + 1
         /\ \E st \in {OrderControl(Last(olog'))} :
                <<opc', oattempt', item'>> = <<st.pc, st.attempt, st.item>>

C21Draft ==
    IF dlog' = dlog
    THEN <<dpc', dattempt'>> = <<dpc, dattempt>>
         \/ (dpc = "pending" /\ dpc' = "book_flight")
    ELSE /\ Len(dlog') = Len(dlog) + 1
         /\ \E st \in {DraftControl(Last(dlog').outcome = "Success", dattempt)} :
                <<dpc', dattempt'>> = <<st.pc, st.attempt>>

nextDelay(attempt_number) ==
    Min({initial_interval * backoff_coefficient ^ (attempt_number - 1),
         maximum_interval})

Failures(l) == Len(SelectSeq(l, LAMBDA outcome : outcome = "Failure"))

\* no wait follows a success or the last allowed attempt
WaitsBetweenAttempts(l, waits, attempts) ==
    Len(waits) = Min({Failures(l), attempts - 1})

C22_WitnessOrders ==
    /\ rpc = "raised"
    /\ Failures(rlog) = max_attempts
    /\ rwaits = <<2, 4>>

\* ------------------------------------------------------------------- C23
\* C23: the id under which a child workflow is started is determined by the
\* order workflow instance and the step alone, and two different (order
\* workflow instance, step) pairs never get the same id.
C23_DistinctKeys ==
    \A c1 \in children : \A c2 \in children :
        c1.id = c2.id => (c1.parent = c2.parent /\ c1.step = c2.step)

\* ------------------------------------------------------------------- C24
\* a run that stored its booking request and in which a later step failed
\* for good
FailedAfterStore(w) ==
    /\ Ended(w)
    /\ Succeeded(log[w], "store_booking_request")
    /\ \E act \in Forward : TerminalFailure(log[w], act)

C24_Witness ==
    \E w \in Codes :
        /\ FailedAfterStore(w)
        /\ TerminalFailure(log[w], "book_flight")
        /\ CompCalls(w) = << >>
        /\ Phase(w) = "Compensated"
        /\ db.booking_requests[w] = booking[w]

C25_EmailFailureFallsBack ==
    (respc = "failed" /\ TerminalFailure(reslog, "send_email_notification"))
        => \E i \in 1..Len(reslog) : reslog[i].activity = "send_sms_notification"

\* ------------------------------------------------------------------- C26
\* the reservation the forward step of a cancellation stored for code w
ReservationOf(d, cancel, w) ==
    CASE cancel = "cancel_flight" -> d.flight_reservations[w]
      [] cancel = "cancel_hotel" -> d.hotel_reservations[w]
      [] cancel = "cancel_car" -> d.car_reservations[w]

\* entry i of history l is the failure of the last permitted attempt of a
\* cancellation
CancelGaveUp(l, i, cancels) ==
    /\ l[i].activity \in cancels
    /\ l[i].attempt = maximum_attempts
    /\ l[i].outcome = "Failure"

C26Booking(w) ==
    \A i \in 1..Len(log[w]) :
        CancelGaveUp(log[w], i, Cancels) =>
            /\ i = Len(log[w])
            /\ pc[w] = "failed"
            /\ \A c \in Cancels :
                  (StepOf(ForwardOf(c)) < StepOf(ForwardOf(log[w][i].activity))
                   /\ Succeeded(log[w], ForwardOf(c))) =>
                      /\ ReservationOf(db, c, w) # None
                      /\ \A j \in 1..Len(log[w]) : log[w][j].activity # c

C26Order ==
    \A i \in 1..Len(olog) :
        CancelGaveUp(olog, i, OrderCancels) =>
            /\ i = Len(olog)
            /\ opc = "failed"
            /\ olog[i].activity # "cancel_payment_activity" =>
                  /\ payment_id # Unset
                  /\ \A j \in 1..Len(olog) :
                        olog[j].activity # "cancel_payment_activity"

\* C26: once the last permitted attempt of a cancellation has failed, run
\* has ended failed and that attempt is the last activity it invoked; the
\* cancellations of the lower steps that had succeeded were never invoked and
\* what those steps did is still in place (the hotel and flight reservations
\* after a failed cancel_car; the payment after a failed
\* cancel_inventory_activity).
C26_NoCompensationAfterFailedOne ==
    /\ \A w \in Codes : C26Booking(w)
    /\ C26Order

\* cancel_car failed for good after the payment had failed: the hotel room
\* and the flight seat stay booked
C26_Witness ==
    \E w \in Codes :
        /\ pc[w] = "failed"
        /\ TerminalFailure(log[w], "cancel_car")
        /\ db.hotel_reservations[w] # None
        /\ db.flight_reservations[w] # None
        /\ CompCalls(w) = <<"cancel_car">>

\* cancel_inventory_activity failed for good: the payment is not refunded
C26_WitnessOrder ==
    /\ opc = "failed"
    /\ TerminalFailure(olog, "cancel_inventory_activity")
    /\ payment_id # Unset
    /\ \A j \in 1..Len(olog) : olog[j].activity # "cancel_payment_activity"

\* ------------------------------------------------------------------- C27
\* the payment is attempted only once the three bookings have succeeded
PaymentAfterBookings(w) ==
    \A i \in 1..Len(log[w]) :
        log[w][i].activity = "accept_payment" =>
            \A act \in {"book_flight", "book_hotel", "book_car"} :
                \E j \in 1..(i - 1) : /\ log[w][j].activity = act
                                       /\ log[w][j].outcome = "Success"

\* C27: accept_payment is invoked only after book_flight, book_hotel and
\* book_car have all succeeded, and no run in which the body of
\* accept_payment ran to completion (the customer was charged) has invoked a
\* cancellation.
C27_NeverChargedThenCancelled ==
    \A w \in Codes :
        /\ PaymentAfterBookings(w)
        /\ applied[w]["accept_payment"] > 0 => CompCalls(w) = << >>

\* ------------------------------------------------------------------- C28
\* the tables of the booking database that bookings and cancellations write
BookingTables(d) ==
    [flight_instances    |-> d.flight_instances,
     hotels              |-> d.hotels,
     cars                |-> d.cars,
     flight_reservations |-> d.flight_reservations,
     hotel_reservations  |-> d.hotel_reservations,
     car_reservations    |-> d.car_reservations]

\* this step ran the body of the activity act for w to its return
Booked(w, act) == applied'[w][act] > applied[w][act]

\* C28: whenever book_flight (book_hotel, book_car) has booked for a
\* confirmation code, cancel_flight (cancel_hotel, cancel_car) for that code
\* on the database it left restores seat availability, unavailable dates and
\* the reservation tables to their values before the booking.
C28_RoundTrip ==
    [][\A w \in Codes :
         /\ Booked(w, "book_flight") =>
                BookingTables(cancel_flight(db', w)) = BookingTables(db)
         /\ Booked(w, "book_hotel") =>
                BookingTables(cancel_hotel(db', w)) = BookingTables(db)
         /\ Booked(w, "book_car") =>
                BookingTables(cancel_car(db', w)) = BookingTables(db)]_vars

\* ------------------------------------------------------------------- C29
\* this step is one attempt of the cancellation act of w
CancelAttempt(w, act) == pc[w] = act /\ Len(log'[w]) > Len(log[w])

\* C29: no attempt of cancel_flight, cancel_hotel or cancel_car ends with an
\* error raised by its body; an attempt for a confirmation code with no
\* stored reservation leaves the booking database unchanged; and after a
\* cancellation has run, running it again changes nothing.
C29_CancelIdempotent ==
    [][\A w \in Codes : \A act \in Cancels :
         CancelAttempt(w, act) =>
            /\ last_failure'[w] \in {"", "timeout"}
            /\ ReservationOf(db, act, w) = None => db' = db
            /\ Booked(w, act) => cancel_activity(db', act, w).db = db']_vars

\* a cancellation has run twice for one confirmation code, the second time
\* with no reservation stored
C29_Witness ==
    \E w \in Codes : \E act \in Cancels :
        /\ applied[w][act] >= 2
        /\ ReservationOf(db, act, w) = None

\* ------------------------------------------------------------------- C30
\* the seats the flight reservation f holds, as <<flight, date, seat>>
SeatsOf(f) ==
    IF f = None THEN {}
    ELSE {<<f.flight_number, f.date, f.seat_numbers[i]>> : i \in 1..Len(f.seat_numbers)}

\* the nights the hotel reservation h holds, as <<hotel, room, date>>
NightsOf(h) ==
    IF h = None THEN {}
    ELSE {<<h.hotel_name, h.room_number, x>> : x \in HotelDates(h.check_in, h.check_out)}

\* the days the car reservation c holds, as <<car, date>>
DaysOf(c) ==
    IF c = None THEN {}
    ELSE {<<c.license_plate, x>> : x \in CarDates(c.pickup_date, c.return_date)}

\* C30: however the activities of concurrent bookings interleave, the stored
\* reservations of two confirmation codes never share a seat of a flight
\* instance, a night of a room or a day of a car.
C30_NoDoubleBooking ==
    \A v, w \in Codes :
        v # w =>
            /\ SeatsOf(db.flight_reservations[v]) \cap
                    SeatsOf(db.flight_reservations[w]) = {}
            /\ NightsOf(db.hotel_reservations[v]) \cap
                    NightsOf(db.hotel_reservations[w]) = {}
            /\ DaysOf(db.car_reservations[v]) \cap
                    DaysOf(db.car_reservations[w]) = {}

\* two bookings hold seats of the same flight instance at once, and one of
\* them has been refused the only room because the other holds it
C30_Witness ==
    \E v, w \in Codes :
        /\ v # w
        /\ db.flight_reservations[v] # None
        /\ db.flight_reservations[w] # None
        /\ db.flight_reservations[v].flight_number = db.flight_reservations[w].flight_number
        /\ db.flight_reservations[v].date = db.flight_reservations[w].date
        /\ db.hotel_reservations[v] # None
        /\ last_failure[w] = "no_availability"

\* ------------------------------------------------------------------- C31
\* sum of the quantities of the items of an order
RECURSIVE TotalQuantity(_)
TotalQuantity(items) ==
    IF items = << >> THEN 0 ELSE Head(items) + TotalQuantity(Tail(items))

\* OrderProcessor.reserve_inventory: checks every item, then decrements
\* every item; unavailable selects `random.random() < 0.15` in all attempts
OrderProcessor_reserve_inventory(items, inventory, unavailable) ==
    IF \E i \in 1..Len(items) : inventory < items[i]
    THEN [ok |-> FALSE, stock |-> inventory]
    ELSE IF unavailable THEN [ok |-> FALSE, stock |-> inventory]
    ELSE [ok |-> TRUE, stock |-> inventory - TotalQuantity(items)]

\* C31: an attempt of the reserve_inventory activity leaves the stock as
\* OrderProcessor.reserve_inventory leaves it: decremented by the quantity of
\* every item of the order when it succeeds, unchanged when it fails.
C31_SameEffectOnStock ==
    [][ppc = "reserve_inventory" =>
         IF ppc' = "schedule_shipment"
         THEN pinventory' =
                 OrderProcessor_reserve_inventory(porder, pinventory, FALSE).stock
         ELSE pinventory' = pinventory]_vars

\* ------------------------------------------------------------------- C32
\* the OrderResult run returned: the one of the try block carries the payment
\* id and the tracking number, the one of the except block carries None
OrderResult ==
    IF presult = "True"
    THEN [success |-> TRUE, payment_id |-> ppayment_id, tracking_number |-> "TRACK"]
    ELSE IF presult = "False"
    THEN [success |-> FALSE, payment_id |-> Unset, tracking_number |-> Unset]
    ELSE [success |-> "none", payment_id |-> Unset, tracking_number |-> Unset]

\* C32: after the terminal failure of an activity OrderProcessingWorkflow.run
\* has returned (the execution is Completed, not Failed) the result
\* OrderResult(success=False, payment_id=None, tracking_number=None), and
\* neither the failing step nor anything after it undoes the payment taken
\* or the stock decremented before.
C32_ReturnsFailureAndKeepsEffects ==
    /\ [](pfailed # "none" =>
            /\ ProcessingStatus = "Completed"
            /\ OrderResult = [success |-> FALSE, payment_id |-> Unset,
                              tracking_number |-> Unset])
    /\ [][pfailed' # "none" =>
            /\ ppayment_id' = ppayment_id
            /\ pinventory' = pinventory]_vars

\* schedule_shipment failed for good after the payment was taken and stock
\* was decremented, and both are still in place
C32_Witness ==
    /\ pfailed = "schedule_shipment"
    /\ ppc = "done"
    /\ ppayment_id # Unset
    /\ pinventory < SeedStock

\* ------------------------------------------------------------------- C33
\* C33: no two HotelReservationWorkflow runs are given the same room number,
\* and the rooms check_room_availability returns to a run include none that
\* an earlier assign_room has given out.
C33_NoRoomAssignedTwice ==
    /\ [](\A g, h \in Guests :
            (g # h /\ groom_number[g] # "") => groom_number[g] # groom_number[h])
    /\ [][\A g \in Guests :
            (gpc[g] = "check_room_availability" /\ gpc'[g] = "collect_payment") =>
                \A i \in 1..Len(grooms'[g]) :
                    grooms'[g][i].room_number \notin AssignedRooms]_vars

\* ------------------------------------------------------------------- C34
\* C34: the quantity in stock of every SKU is never negative; a call of
\* reserve_inventory that decrements a SKU found at least the requested
\* quantity of it in stock, and a call that raises changes no stock.
C34_StockNeverNegative ==
    /\ [](\A sku \in Skus : inventory_db[sku] >= 0)
    /\ [][IF last_call'.ok
          THEN \A sku \in Skus :
                   inventory_db'[sku] # inventory_db[sku] =>
                       /\ last_call'.items[1].sku = sku
                       /\ inventory_db[sku] >= last_call'.items[1].quantity
                       /\ inventory_db'[sku] =
                              inventory_db[sku] - last_call'.items[1].quantity
          ELSE inventory_db' = inventory_db]_vars

\* a SKU has been sold out and a later call asking for it has raised
C34_Witness ==
    /\ last_call # None
    /\ ~last_call.ok
    /\ \E sku \in Skus :
         /\ inventory_db[sku] = 0
         /\ last_call.items[1].sku = sku
\* --------------------------------------------------------------- C35
\* the steps on which next_phase is called: the end of an execute_..._phase
\* method of play_round, or a call of a caller of GameState
NextPhaseCalled ==
    \/ gamepc \in {"execute_command_phase", "execute_worker_placement_phase",
                   "execute_resolution_phase", "execute_battle_phase",
                   "execute_cleanup_phase"}
    \/ gamepc = "calls" /\ breached' = breached

PhaseAfter(phase) ==
    CASE phase = "setup" -> "command"
      [] phase = "command" -> "worker_placement"
      [] phase = "worker_placement" -> "resolution"
      [] phase = "resolution" -> "battle"
      [] phase = "battle" -> "cleanup"

C35_Advance ==
    /\ NextPhaseCalled /\ current_phase \in {"setup", "command", "worker_placement",
                                              "resolution", "battle"}
         => /\ current_phase' = PhaseAfter(current_phase)
            /\ current_round' = current_round
    /\ NextPhaseCalled /\ current_phase = "cleanup"
         => /\ current_phase' \in {"command", "game_over"}
            /\ current_round' = current_round + 1
    /\ current_round' # current_round
         => /\ current_phase = "cleanup"
            /\ current_round' = current_round + 1
    /\ current_phase = "game_over"
         => /\ current_phase' = "game_over"
            /\ current_round' = current_round

\* C35: next_phase takes SETUP to COMMAND and then goes round COMMAND,
\* WORKER_PLACEMENT, RESOLUTION, BATTLE, CLEANUP; current_round grows by
\* exactly one, and only on leaving CLEANUP, and never decreases; next_phase
\* in GAME_OVER changes neither the phase nor the round; and play_game ends,
\* having played at most max_rounds rounds
C35_PhasesCycleAndGameEnds ==
    /\ [][C35_Advance]_vars
    /\ [](current_phase = "game_over" =>
            next_phase(current_phase, current_round, breached)
                = [phase |-> current_phase, round |-> current_round])
    /\ [](rounds_played <= max_rounds)
    /\ (gamepc = "play_game") ~> (gamepc = "done")

\* play_game has ended after max_rounds whole rounds
C35_Witness ==
    /\ gamepc = "done"
    /\ rounds_played = max_rounds
    /\ current_round = max_rounds + 1
    /\ current_phase = "game_over"

====
